---- MODULE Spec2Model ----
(***************************************************************************)
(* Five-in-a-row (Gomoku) engine: GameState board, RuleEngine (win         *)
(* detection, Black-only forbidden-move detection), MathUtils and the      *)
(* AIEngine dispatcher.  The repository holds two RuleEngine sources       *)
(* (js/core/RuleEngine.js with window scanning, unnamed/part_001 with      *)
(* pattern tables); the variable `engine` says which one is loaded.        *)
(***************************************************************************)
EXTENDS Integers, Sequences, FiniteSets, TLC

VARIABLES
  board,           \* GameState.board[y][x]: 0 empty, 1 black, 2 white
  forbiddenRules,  \* GameState.settings.forbiddenRules
  engine,          \* which RuleEngine source is loaded
  call,            \* the last API call: [op, x, y, player]
  ret,             \* what that call returned
  writes,          \* how many board cells that call assigned
  lineArray,       \* the axis window handed to the pattern counters
  difficulty,      \* AIEngine.currentDifficulty, by player
  currentPlayer,   \* GameState.currentPlayer
  moveHistory,     \* GameState.moveHistory: records [step, x, y, player]
  gameStatus,      \* GameState.gameStatus: ready | playing | finished
  currentMode,     \* ModeManager.currentMode
  playerSide,      \* GameState.settings.playerSide
  aiTimers,        \* how many setTimeout callbacks to triggerAIMove are pending
  eveAutoPlay,     \* ModeManager.eveAutoPlay
  isReplayMode,    \* ModeManager.isReplayMode
  winner,          \* GameState.winner: 0 is null
  winLine,         \* GameState.winLine: <<>> is null
  lastGame,        \* the localStorage item 'gomoku:lastGameState'
  autoSaves,       \* the localStorage item 'gomoku:autoSaves'
  now,             \* Date.now()
  sequence,        \* ReplayService.sequence
  currentIndex,    \* ReplayService.currentIndex
  isPlaying,       \* ReplayService.isPlaying
  speed,           \* ReplayService.speed, in tenths
  timer,           \* ReplayService.timer: the id setTimeout returned, 0 is null
  timers,          \* the ids of the replay timeouts that are pending
  originalSnapshot, \* ReplayService.originalSnapshot: <<>> is null
  listeners,       \* EventBus.listeners of one event, in order
  invoked          \* the handlers that were invoked, in order

\* the fields of a game in play
play ==
  <<currentPlayer, moveHistory, gameStatus, currentMode, playerSide, aiTimers, eveAutoPlay,
    isReplayMode, winner, winLine>>

\* what SaveLoadService keeps in the browser's storage, and the clock
saves == <<lastGame, autoSaves, now>>

\* the fields of the replay service
replay == <<sequence, currentIndex, isPlaying, speed, timer, timers, originalSnapshot>>

\* the fields of the event bus and the log of its handlers
bus == <<listeners, invoked>>

\* the state of the services beside the game
others == <<saves, replay, bus>>

vars == <<board, forbiddenRules, engine, call, ret, writes, lineArray, difficulty, play, others>>

(***************************************************************************)
(* Program constants                                                       *)
(***************************************************************************)
BoardSize == 15
LineRange == 6

Black == 1
White == 2

Coords == 0..(BoardSize - 1)
EmptyBoard == [row \in 1..BoardSize |-> [col \in 1..BoardSize |-> 0]]

\* board[y][x] with the source's 0-based coordinates
At(b, x, y) == b[y + 1][x + 1]

\* board[y][x] = value
Put(b, x, y, value) == [b EXCEPT ![y + 1][x + 1] = value]

Engines == {"RuleEngine.js", "part_001"}

BOARD_DIRECTIONS ==
  << [dx |-> 1, dy |-> 0, name |-> "horizontal"],
     [dx |-> 0, dy |-> 1, name |-> "vertical"],
     [dx |-> 1, dy |-> 1, name |-> "diagDown"],
     [dx |-> 1, dy |-> -1, name |-> "diagUp"] >>

DirIdx == 1..Len(BOARD_DIRECTIONS)

(***************************************************************************)
(* MathUtils / GameState helpers                                           *)
(***************************************************************************)
inBounds(x, y, size) == x >= 0 /\ y >= 0 /\ x < size /\ y < size

isValidPosition(x, y) == x >= 0 /\ y >= 0 /\ x < BoardSize /\ y < BoardSize

getOpponent(player) == IF player = 1 THEN 2 ELSE 1

\* the while loops of countDirection / checkWin: how many consecutive cells,
\* starting at (x, y) and stepping by (dx, dy), hold `player`
RECURSIVE RunLength(_, _, _, _, _, _)
RunLength(b, x, y, dx, dy, player) ==
  IF inBounds(x, y, BoardSize) /\ At(b, x, y) = player
  THEN 1 + RunLength(b, x + dx, y + dy, dx, dy, player)
  ELSE 0

countDirection(b, x, y, dx, dy, player) ==
  LET fwd == RunLength(b, x + dx, y + dy, dx, dy, player)
      bwd == RunLength(b, x - dx, y - dy, -dx, -dy, player)
      fx == x + dx * (fwd + 1)
      fy == y + dy * (fwd + 1)
      bx == x - dx * (bwd + 1)
      by == y - dy * (bwd + 1)
      openF == IF inBounds(fx, fy, BoardSize) /\ At(b, fx, fy) = 0 THEN 1 ELSE 0
      openB == IF inBounds(bx, by, BoardSize) /\ At(b, bx, by) = 0 THEN 1 ELSE 0
  IN [count |-> 1 + fwd + bwd, openEnds |-> openF + openB]

\* faulty variant: only runs of seven or more count as a long line
hasLongLine_Seven(b, x, y, player) ==
  \E d \in DirIdx :
    countDirection(b, x, y, BOARD_DIRECTIONS[d].dx, BOARD_DIRECTIONS[d].dy, player).count >= 7

hasLongLine(b, x, y, player) ==
  \E d \in DirIdx :
    countDirection(b, x, y, BOARD_DIRECTIONS[d].dx, BOARD_DIRECTIONS[d].dy, player).count >= 6

(***************************************************************************)
(* RuleEngine: line extraction (shared by both sources)                    *)
(***************************************************************************)
\* 0 empty, 1 own stone, 2 opponent, 3 off the board; the centre is always 1
_getLineArray(b, x, y, dx, dy, player) ==
  [i \in 1..(2 * LineRange + 1) |->
     LET offset == i - LineRange - 1
         nx == x + dx * offset
         ny == y + dy * offset
     IN IF offset = 0 THEN 1
        ELSE IF ~inBounds(nx, ny, BoardSize) THEN 3
        ELSE IF At(b, nx, ny) = player THEN 1
        ELSE IF At(b, nx, ny) = 0 THEN 0
        ELSE 2]

\* line.slice(start, start + len) with a 0-based start
Slice(line, start, len) == [i \in 1..len |-> line[start + i]]

CountOf(w, v) == Cardinality({i \in 1..Len(w) : w[i] = v})

Includes(w, v) == \E i \in 1..Len(w) : w[i] = v

\* Math.floor(line.length / 2), a 0-based index
CenterIndex(line) == Len(line) \div 2

\* 0-based starts of the windows of length len that contain the centre
StartsThrough(line, centerIndex, len) ==
  {start \in 0..(Len(line) - len) :
     ~(centerIndex < start \/ centerIndex > start + len - 1)}

(***************************************************************************)
(* RuleEngine, js/core/RuleEngine.js: window scanning                      *)
(***************************************************************************)
\* the seen-set is keyed by `${start}-${end}`: one key per window that
\* passes the checks
OpenThreeWindows(line, centerIndex) ==
  LET length == 7
      hasPotential(w) ==
        \E innerStart \in 0..(Len(w) - 5) :
          LET inner == Slice(w, innerStart, 5)
          IN /\ ~(Includes(inner, 2) \/ Includes(inner, 3))
             /\ CountOf(inner, 1) = 3
             /\ inner[1] = 0 /\ inner[5] = 0
      counted(start) ==
        LET w == Slice(line, start, length)
        IN /\ ~(Includes(w, 2) \/ Includes(w, 3))
           /\ w[1] = 0 /\ w[Len(w)] = 0
           /\ ~(CountOf(w, 1) # 3 \/ CountOf(w, 0) < 2)
           /\ hasPotential(w)
  IN {<<start, start + length - 1>> :
        start \in {s \in StartsThrough(line, centerIndex, length) : counted(s)}}

_countOpenThrees(line, centerIndex) == Cardinality(OpenThreeWindows(line, centerIndex))

FourWindows(line, centerIndex) ==
  LET lengths == {6, 7}
      \* the windows that pass the first three checks, as <<start, end>>
      fours ==
        UNION { { <<start, start + len - 1>> :
                    start \in {s \in StartsThrough(line, centerIndex, len) :
                                 LET w == Slice(line, s, len)
                                 IN /\ ~(Includes(w, 2) \/ Includes(w, 3))
                                    /\ CountOf(w, 1) = 4} } :
                len \in lengths }
      leftEmpty(k) == line[k[1] + 1] = 0
      rightEmpty(k) == line[k[2] + 1] = 0
  IN [seenOpen |-> {k \in fours : leftEmpty(k) /\ rightEmpty(k)},
      seenRush |-> {k \in fours : ~(leftEmpty(k) /\ rightEmpty(k))
                                   /\ (leftEmpty(k) \/ rightEmpty(k))}]

_countFours(line, centerIndex) ==
  LET seen == FourWindows(line, centerIndex)
  IN [openFours |-> Cardinality(seen.seenOpen), rushFours |-> Cardinality(seen.seenRush)]

(***************************************************************************)
(* RuleEngine, unnamed/part_001: pattern tables                            *)
(***************************************************************************)
OpenThreePatterns ==
  { <<0, 1, 1, 1, 0>>, <<0, 1, 1, 0, 1, 0>>, <<0, 1, 0, 1, 1, 0>> }

OpenFourPatterns ==
  { <<0, 1, 1, 1, 1, 0>>, <<0, 1, 1, 1, 0, 1, 0>>,
    <<0, 1, 1, 0, 1, 1, 0>>, <<0, 1, 0, 1, 1, 1, 0>> }

\* the 0-based positions of the own stones of the window start..end: the
\* dedup key
PiecePositions(line, start, end) == {i \in start..end : line[i + 1] = 1}

\* the windows through the centre that equal a pattern of the table
PatternWindows(line, centerIndex, patterns) ==
  UNION { { <<start, start + Len(pattern) - 1>> :
              start \in {s \in StartsThrough(line, centerIndex, Len(pattern)) :
                           Slice(line, s, Len(pattern)) = pattern} } :
          pattern \in patterns }

\* the keys of a set of windows
Keys(line, windows) == {PiecePositions(line, w[1], w[2]) : w \in windows}

_countOpenThreesTable(line, centerIndex) ==
  Cardinality(Keys(line, PatternWindows(line, centerIndex, OpenThreePatterns)))

\* the windows of length 5 to 7 with four own stones, a blocker inside, one
\* end empty and the other end blocked
RushFourWindows(line, centerIndex) ==
  LET isRushFour(start, len) ==
        LET w == Slice(line, start, len)
            leftEnd == w[1]
            rightEnd == w[len]
        IN /\ CountOf(w, 1) = 4
           /\ (Includes(w, 2) \/ Includes(w, 3))
           /\ \/ (leftEnd = 0 /\ (rightEnd = 2 \/ rightEnd = 3))
              \/ (rightEnd = 0 /\ (leftEnd = 2 \/ leftEnd = 3))
  IN UNION { { <<start, start + len - 1>> :
                 start \in {s \in StartsThrough(line, centerIndex, len) : isRushFour(s, len)} } :
             len \in 5..7 }

_countFoursTable(line, centerIndex) ==
  LET foundOpenFours == Keys(line, PatternWindows(line, centerIndex, OpenFourPatterns))
      foundRushFours == {k \in Keys(line, RushFourWindows(line, centerIndex)) :
                           k \notin foundOpenFours}
  IN [openFours |-> Cardinality(foundOpenFours),
      rushFours |-> Cardinality(foundRushFours)]

(***************************************************************************)
(* RuleEngine: detectForbidden, validateMove, checkWin                     *)
(***************************************************************************)
countOpenThreesOf(eng, line, centerIndex) ==
  IF eng = "RuleEngine.js" THEN _countOpenThrees(line, centerIndex)
  ELSE _countOpenThreesTable(line, centerIndex)

countFoursOf(eng, line, centerIndex) ==
  IF eng = "RuleEngine.js" THEN _countFours(line, centerIndex)
  ELSE _countFoursTable(line, centerIndex)

_analyzeDirections(b, x, y, player, eng) ==
  [d \in DirIdx |->
     LET dir == BOARD_DIRECTIONS[d]
         line == _getLineArray(b, x, y, dir.dx, dir.dy, player)
         centerIndex == CenterIndex(line)
         fours == countFoursOf(eng, line, centerIndex)
     IN [direction |-> dir.name,
         openThrees |-> countOpenThreesOf(eng, line, centerIndex),
         openFours |-> fours.openFours,
         rushFours |-> fours.rushFours]]

RECURSIVE SumOver(_, _)
SumOver(f, S) ==
  IF S = {} THEN 0
  ELSE LET i == CHOOSE j \in S : TRUE IN f[i] + SumOver(f, S \ {i})

NotForbidden ==
  [isForbidden |-> FALSE, type |-> "none", openThrees |-> 0, openFours |-> 0, rushFours |-> 0]

Forbidden(type, openThrees, openFours, rushFours) ==
  [isForbidden |-> TRUE, type |-> type, openThrees |-> openThrees,
   openFours |-> openFours, rushFours |-> rushFours]

\* the body of the try block, run on the board that holds the trial stone
ForbiddenVerdict(placed, x, y, player, eng) ==
  IF hasLongLine(placed, x, y, player)
  THEN Forbidden("long_line", 0, 0, 0)
  ELSE LET directionStats == _analyzeDirections(placed, x, y, player, eng)
           openThrees == SumOver([d \in DirIdx |-> directionStats[d].openThrees], DirIdx)
           openFours == SumOver([d \in DirIdx |-> directionStats[d].openFours], DirIdx)
           rushFours == SumOver([d \in DirIdx |-> directionStats[d].rushFours], DirIdx)
       IN IF openFours + rushFours >= 2
          THEN Forbidden("double_four", 0, openFours, rushFours)
          ELSE IF openThrees >= 2
          THEN Forbidden("double_three", openThrees, 0, 0)
          ELSE NotForbidden

\* faulty variant: the finally block is missing, the trial stone stays
detectForbidden_NoRestore(b, x, y, player, rules, eng) ==
  IF player # 1 \/ ~rules
  THEN [ret |-> NotForbidden, board |-> b, writes |-> 0]
  ELSE IF At(b, x, y) # 0
  THEN [ret |-> Forbidden("position_occupied", 0, 0, 0), board |-> b, writes |-> 0]
  ELSE LET placed == Put(b, x, y, player)
       IN [ret |-> ForbiddenVerdict(placed, x, y, player, eng),
           board |-> placed, writes |-> 1]

\* faulty variant: the settings are not consulted
detectForbidden_RulesIgnored(b, x, y, player, rules, eng) ==
  IF player # 1
  THEN [ret |-> NotForbidden, board |-> b, writes |-> 0]
  ELSE IF At(b, x, y) # 0
  THEN [ret |-> Forbidden("position_occupied", 0, 0, 0), board |-> b, writes |-> 0]
  ELSE LET placed == Put(b, x, y, player)
       IN [ret |-> ForbiddenVerdict(placed, x, y, player, eng),
           board |-> Put(placed, x, y, 0), writes |-> 2]

\* the call's result, the board it leaves and the number of cell assignments
\* it made: the trial stone is written before the try block and taken back
\* in its finally block
detectForbidden(b, x, y, player, rules, eng) ==
  IF player # 1 \/ ~rules
  THEN [ret |-> NotForbidden, board |-> b, writes |-> 0]
  ELSE IF At(b, x, y) # 0
  THEN [ret |-> Forbidden("position_occupied", 0, 0, 0), board |-> b, writes |-> 0]
  ELSE LET placed == Put(b, x, y, player)
       IN [ret |-> ForbiddenVerdict(placed, x, y, player, eng),
           board |-> Put(placed, x, y, 0), writes |-> 2]

\* validateMove's answer for a black move under the forbidden rules, given
\* what detectForbidden said and left
MoveVerdict(forbidden) ==
  IF forbidden.ret.isForbidden
  THEN [ret |-> [valid |-> FALSE, error |-> "forbidden_move",
                 forbiddenInfo |-> forbidden.ret],
        board |-> forbidden.board, writes |-> forbidden.writes]
  ELSE [ret |-> [valid |-> TRUE, error |-> "none", forbiddenInfo |-> NotForbidden],
        board |-> forbidden.board, writes |-> forbidden.writes]

\* faulty variant: the occupancy test comes before the bounds test, and an
\* off-board cell reads as occupied
validateMove_OccupiedFirst(b, x, y, player, rules, eng) ==
  IF ~isValidPosition(x, y) \/ At(b, x, y) # 0
  THEN [ret |-> [valid |-> FALSE, error |-> "position_occupied", forbiddenInfo |-> NotForbidden],
        board |-> b, writes |-> 0]
  ELSE IF player = 1 /\ rules /\ detectForbidden(b, x, y, player, rules, eng).ret.isForbidden
  THEN [ret |-> [valid |-> FALSE, error |-> "forbidden_move",
                 forbiddenInfo |-> detectForbidden(b, x, y, player, rules, eng).ret],
        board |-> b, writes |-> 2]
  ELSE [ret |-> [valid |-> TRUE, error |-> "none", forbiddenInfo |-> NotForbidden],
        board |-> b, writes |-> 0]

validateMove(b, x, y, player, rules, eng) ==
  IF ~isValidPosition(x, y)
  THEN [ret |-> [valid |-> FALSE, error |-> "out_of_bounds", forbiddenInfo |-> NotForbidden],
        board |-> b, writes |-> 0]
  ELSE IF At(b, x, y) # 0
  THEN [ret |-> [valid |-> FALSE, error |-> "position_occupied", forbiddenInfo |-> NotForbidden],
        board |-> b, writes |-> 0]
  ELSE IF player = 1 /\ rules
  THEN MoveVerdict(detectForbidden(b, x, y, player, rules, eng))
  ELSE [ret |-> [valid |-> TRUE, error |-> "none", forbiddenInfo |-> NotForbidden],
        board |-> b, writes |-> 0]

Reverse(s) == [i \in 1..Len(s) |-> s[Len(s) + 1 - i]]

\* one pass of checkWin's loop: the line collected on axis d
WinLineOn(b, x, y, player, d) ==
  LET dir == BOARD_DIRECTIONS[d]
      fwd == RunLength(b, x + dir.dx, y + dir.dy, dir.dx, dir.dy, player)
      bwd == RunLength(b, x - dir.dx, y - dir.dy, -dir.dx, -dir.dy, player)
      line == [i \in 1..(fwd + 1) |-> <<x + dir.dx * (i - 1), y + dir.dy * (i - 1)>>]
      prepend == [i \in 1..bwd |-> <<x - dir.dx * i, y - dir.dy * i>>]
  IN [count |-> 1 + fwd + bwd, cells |-> Reverse(prepend) \o line]

\* faulty variant: four in a row already wins
checkWin_Four(b, x, y, player) ==
  LET wins == {d \in DirIdx : WinLineOn(b, x, y, player, d).count >= 4}
  IN IF wins = {}
     THEN [isWin |-> FALSE, winLine |-> <<>>, direction |-> "none"]
     ELSE LET d == CHOOSE e \in wins : \A f \in wins : e <= f
          IN [isWin |-> TRUE,
              winLine |-> WinLineOn(b, x, y, player, d).cells,
              direction |-> BOARD_DIRECTIONS[d].name]

checkWin(b, x, y, player) ==
  LET wins == {d \in DirIdx : WinLineOn(b, x, y, player, d).count >= 5}
  IN IF wins = {}
     THEN [isWin |-> FALSE, winLine |-> <<>>, direction |-> "none"]
     ELSE LET d == CHOOSE e \in wins : \A f \in wins : e <= f
          IN [isWin |-> TRUE,
              winLine |-> WinLineOn(b, x, y, player, d).cells,
              direction |-> BOARD_DIRECTIONS[d].name]

(***************************************************************************)
(* MathUtils: evaluation and candidate generation                          *)
(***************************************************************************)
SCORE_TABLE ==
  [FIVE |-> 1000000, OPEN_FOUR |-> 100000, CLOSED_FOUR |-> 40000,
   OPEN_THREE |-> 6000, CLOSED_THREE |-> 1500, OPEN_TWO |-> 400, CLOSED_TWO |-> 80]

\* what evaluateBoard adds for one segment
SegmentScore(count, openEnds) ==
  IF count >= 5 THEN SCORE_TABLE.FIVE
  ELSE IF count = 4
  THEN (IF openEnds = 2 THEN SCORE_TABLE.OPEN_FOUR
        ELSE IF openEnds = 1 THEN SCORE_TABLE.CLOSED_FOUR ELSE 0)
  ELSE IF count = 3
  THEN (IF openEnds = 2 THEN SCORE_TABLE.OPEN_THREE
        ELSE IF openEnds = 1 THEN SCORE_TABLE.CLOSED_THREE ELSE 0)
  ELSE IF count = 2
  THEN (IF openEnds = 2 THEN SCORE_TABLE.OPEN_TWO
        ELSE IF openEnds = 1 THEN SCORE_TABLE.CLOSED_TWO ELSE 0)
  ELSE 0

\* every segment is scored once, at the stone that has no own stone before
\* it; the sum is taken row by row, as the loops over y and x run
evaluateBoard(b, player) ==
  LET starts(y) == {s \in {x \in Coords : At(b, x, y) = player} \X DirIdx :
                      LET prevX == s[1] - BOARD_DIRECTIONS[s[2]].dx
                          prevY == y - BOARD_DIRECTIONS[s[2]].dy
                      IN ~(inBounds(prevX, prevY, BoardSize) /\ At(b, prevX, prevY) = player)}
      score(y) == [s \in starts(y) |->
                     LET r == countDirection(b, s[1], y, BOARD_DIRECTIONS[s[2]].dx,
                                             BOARD_DIRECTIONS[s[2]].dy, player)
                     IN SegmentScore(r.count, r.openEnds)]
  IN SumOver([y \in Coords |-> SumOver(score(y), starts(y))], Coords)

Abs(n) == IF n < 0 THEN -n ELSE n
Max(a, b) == IF a >= b THEN a ELSE b
Min(a, b) == IF a <= b THEN a ELSE b

\* the cells that hold a stone: board[y][x] !== 0
Occupied(b) == {e \in Coords \X Coords : At(b, e[1], e[2]) # 0}

\* a scan that also offers the cells that hold a stone
Weighted_AnyCell(stones, radius) ==
  LET size == BoardSize
      center == (size - 1) \div 2
      visit(s, c) ==
        ((s[2] * size + s[1]) * (2 * radius + 1) + (c[1] - s[1] + radius)) * (2 * radius + 1)
          + (c[2] - s[2] + radius)
      first(visits) == CHOOSE v \in visits : \A w \in visits : v <= w
      entry(c, reaching) ==
        [x |-> c[1], y |-> c[2],
         weight |-> SumOver([s \in reaching |->
                               Max(0, (radius * 2 + 1) - (Abs(c[1] - s[1]) + Abs(c[2] - s[2])))
                                 + (20 - (Abs(c[1] - center) + Abs(c[2] - center)))],
                            reaching),
         order |-> first({visit(s, c) : s \in reaching})]
      near(c) == {s \in stones : Abs(c[1] - s[1]) <= radius /\ Abs(c[2] - s[2]) <= radius}
      around(s) == {e \in ((s[1] - radius)..(s[1] + radius)) \X ((s[2] - radius)..(s[2] + radius)) :
                      inBounds(e[1], e[2], size)}
  IN {entry(c, near(c)) : c \in UNION {around(s) : s \in stones}}

\* the cells the scan adds to the map, each with the weight summed over the
\* stones that reach it and with the position of its first insertion
Weighted(stones, radius) ==
  LET size == BoardSize
      center == (size - 1) \div 2
      \* the scan visits the stones row by row, and around a stone dx before dy
      visit(s, c) ==
        ((s[2] * size + s[1]) * (2 * radius + 1) + (c[1] - s[1] + radius)) * (2 * radius + 1)
          + (c[2] - s[2] + radius)
      first(visits) == CHOOSE v \in visits : \A w \in visits : v <= w
      entry(c, reaching) ==
        [x |-> c[1], y |-> c[2],
         weight |-> SumOver([s \in reaching |->
                               Max(0, (radius * 2 + 1) - (Abs(c[1] - s[1]) + Abs(c[2] - s[2])))
                                 + (20 - (Abs(c[1] - center) + Abs(c[2] - center)))],
                            reaching),
         order |-> first({visit(s, c) : s \in reaching})]
      \* the stones whose square of side 2 * radius + 1 holds c
      near(c) == {s \in stones : Abs(c[1] - s[1]) <= radius /\ Abs(c[2] - s[2]) <= radius}
      \* the cells of that square around s that are on the board and empty
      around(s) == {e \in ((s[1] - radius)..(s[1] + radius)) \X ((s[2] - radius)..(s[2] + radius)) :
                      inBounds(e[1], e[2], size) /\ e \notin stones}
  IN {entry(c, near(c)) : c \in UNION {around(s) : s \in stones}}

\* Array.prototype.sort is stable: by weight, heaviest first, and among equal
\* weights in the order of insertion into the map
Before(p, q) == p.weight > q.weight \/ (p.weight = q.weight /\ p.order < q.order)

Ranked(candidates) ==
  {<<1 + Cardinality({q \in candidates : Before(q, p)}), p>> : p \in candidates}

InOrder(ranked) ==
  [i \in 1..Cardinality(ranked) |->
     LET p == (CHOOSE e \in ranked : e[1] = i)[2]
     IN [x |-> p.x, y |-> p.y, weight |-> p.weight]]

\* generateCandidateMoves with the stones its scan finds
Generated(stones, radius) ==
  IF stones = {}
  THEN <<[x |-> BoardSize \div 2, y |-> BoardSize \div 2, weight |-> 1000]>>
  ELSE InOrder(Ranked(Weighted(stones, radius)))

generateCandidateMoves(b, radius) == Generated(Occupied(b), radius)

\* Array.prototype.slice(0, n)
Take(s, n) == SubSeq(s, 1, Min(n, Len(s)))

(***************************************************************************)
(* AIEngine and its strategies, unnamed/part_002                           *)
(***************************************************************************)
\* stands for the IEEE infinity: larger than every score a board can get
Infinity == 2000000000

Levels == {"BEGINNER", "NORMAL", "HARD", "HELL"}

\* the constructor arguments of the four strategy classes
Strategies ==
  [BEGINNER |-> [name |-> "BEGINNER", maxDepth |-> 1, maxCandidates |-> 20],
   NORMAL |-> [name |-> "NORMAL", maxDepth |-> 2, maxCandidates |-> 12],
   HARD |-> [name |-> "HARD", maxDepth |-> 3, maxCandidates |-> 10],
   HELL |-> [name |-> "HELL", maxDepth |-> 4, maxCandidates |-> 8]]

\* myScore - opponentScore * 0.9: every entry of the score table is a
\* multiple of 10, so the product is an integer and the double holds it exactly
evaluate(b, player) ==
  evaluateBoard(b, player) - (evaluateBoard(b, getOpponent(player)) \div 10) * 9

\* board.map(row => row.slice()): a new board with the same cells
cloneBoard(b) == [row \in DOMAIN b |-> [col \in DOMAIN b[row] |-> b[row][col]]]

\* _minimax writes into the board it is given: next to the score it returns,
\* the model keeps the cells that board has when the call returns
RECURSIVE _minimax(_, _, _, _, _, _, _)
RECURSIVE MaximizingLoop(_, _, _, _, _, _, _, _, _)
RECURSIVE MaximizingPass(_, _, _, _, _, _, _, _, _)
RECURSIVE MinimizingLoop(_, _, _, _, _, _, _, _, _)
RECURSIVE MinimizingPass(_, _, _, _, _, _, _, _, _)

\* a maximizing loop that leaves on beta <= alpha before it takes the stone back
MaximizingPass_BreakFirst(strategy, player, depth, alpha, beta, candidates, i, maxEval, searched) ==
  IF beta <= Max(alpha, searched.value)
  THEN [value |-> Max(maxEval, searched.value), board |-> searched.board]
  ELSE MaximizingLoop(strategy, Put(searched.board, candidates[i].x, candidates[i].y, 0),
                      player, depth, Max(alpha, searched.value), beta, candidates,
                      i + 1, Max(maxEval, searched.value))

\* one pass of the maximizing loop after the recursive call returned: the
\* stone is taken back (board[y][x] = 0), then maxEval and alpha are raised,
\* then the loop is left when beta <= alpha
MaximizingPass(strategy, player, depth, alpha, beta, candidates, i, maxEval, searched) ==
  IF beta <= Max(alpha, searched.value)
  THEN [value |-> Max(maxEval, searched.value),
        board |-> Put(searched.board, candidates[i].x, candidates[i].y, 0)]
  ELSE MaximizingLoop(strategy, Put(searched.board, candidates[i].x, candidates[i].y, 0),
                      player, depth, Max(alpha, searched.value), beta, candidates,
                      i + 1, Max(maxEval, searched.value))

\* the loop over the candidates from the i-th on: the pass writes the
\* player's stone into the board and searches one level deeper
MaximizingLoop(strategy, b, player, depth, alpha, beta, candidates, i, maxEval) ==
  IF i > Len(candidates) THEN [value |-> maxEval, board |-> b]
  ELSE MaximizingPass(strategy, player, depth, alpha, beta, candidates, i, maxEval,
                      _minimax(strategy, Put(b, candidates[i].x, candidates[i].y, player),
                               player, depth + 1, alpha, beta, FALSE))

\* faulty variant: the loop is left before minEval takes the value in
MinimizingPass_BreakBeforeMin(strategy, player, depth, alpha, beta, candidates, i, minEval, searched) ==
  IF Min(beta, searched.value) <= alpha
  THEN [value |-> minEval,
        board |-> Put(searched.board, candidates[i].x, candidates[i].y, 0)]
  ELSE MinimizingLoop(strategy, Put(searched.board, candidates[i].x, candidates[i].y, 0),
                      player, depth, alpha, Min(beta, searched.value), candidates,
                      i + 1, Min(minEval, searched.value))

MinimizingPass(strategy, player, depth, alpha, beta, candidates, i, minEval, searched) ==
  IF Min(beta, searched.value) <= alpha
  THEN [value |-> Min(minEval, searched.value),
        board |-> Put(searched.board, candidates[i].x, candidates[i].y, 0)]
  ELSE MinimizingLoop(strategy, Put(searched.board, candidates[i].x, candidates[i].y, 0),
                      player, depth, alpha, Min(beta, searched.value), candidates,
                      i + 1, Min(minEval, searched.value))

MinimizingLoop(strategy, b, player, depth, alpha, beta, candidates, i, minEval) ==
  IF i > Len(candidates) THEN [value |-> minEval, board |-> b]
  ELSE MinimizingPass(strategy, player, depth, alpha, beta, candidates, i, minEval,
                      _minimax(strategy,
                               Put(b, candidates[i].x, candidates[i].y, getOpponent(player)),
                               player, depth + 1, alpha, beta, TRUE))

\* _minimax below its depth limit, with the candidates it generated
Search(strategy, b, player, depth, alpha, beta, isMaximizing, candidates) ==
  IF Len(candidates) = 0 THEN [value |-> evaluate(b, player), board |-> b]
  ELSE IF isMaximizing
  THEN MaximizingLoop(strategy, b, player, depth, alpha, beta, candidates, 1, -Infinity)
  ELSE MinimizingLoop(strategy, b, player, depth, alpha, beta, candidates, 1, Infinity)

_minimax(strategy, b, player, depth, alpha, beta, isMaximizing) ==
  IF depth >= strategy.maxDepth THEN [value |-> evaluate(b, player), board |-> b]
  ELSE Search(strategy, b, player, depth, alpha, beta, isMaximizing,
              Take(generateCandidateMoves(b, 2), strategy.maxCandidates))

_threatBonus(b, x, y, player) ==
  LET bonus == [d \in DirIdx |->
                  LET r == countDirection(b, x, y, BOARD_DIRECTIONS[d].dx,
                                          BOARD_DIRECTIONS[d].dy, player)
                  IN IF r.count = 4 /\ r.openEnds = 2 THEN 50000
                     ELSE IF r.count = 4 /\ r.openEnds = 1 THEN 20000
                     ELSE IF r.count = 3 /\ r.openEnds = 2 THEN 5000
                     ELSE 0]
  IN SumOver(bonus, DirIdx)

\* null
NoMove == [none |-> TRUE]

\* the score compute gives a candidate: what _minimax returned and, for the
\* hell tier, the bonus read from the board the search left
Score(strategy, searched, x, y, player) ==
  searched.value
    + (IF strategy.name = "HELL" THEN _threatBonus(searched.board, x, y, player) ELSE 0)

RECURSIVE BestMove(_, _, _, _, _, _, _)
RECURSIVE BestMovePass(_, _, _, _, _, _, _, _)
RECURSIVE BestMoveSearched(_, _, _, _, _, _, _, _)

\* a pass that lets a candidate of equal score replace the best one
BestMovePass_TakesTies(strategy, boards, player, topCandidates, i, bestMove, bestScore, score) ==
  IF score >= bestScore
  THEN BestMove(strategy, boards.state, player, topCandidates, i + 1,
                [x |-> topCandidates[i].x, y |-> topCandidates[i].y, score |-> score], score)
  ELSE BestMove(strategy, boards.state, player, topCandidates, i + 1, bestMove, bestScore)

\* one pass of the loop of compute, with the candidate's score; boards holds
\* the two objects of the pass: state.board and the local clone
BestMovePass(strategy, boards, player, topCandidates, i, bestMove, bestScore, score) ==
  IF score > bestScore
  THEN BestMove(strategy, boards.state, player, topCandidates, i + 1,
                [x |-> topCandidates[i].x, y |-> topCandidates[i].y, score |-> score], score)
  ELSE BestMove(strategy, boards.state, player, topCandidates, i + 1, bestMove, bestScore)

\* the pass after _minimax returned: the search wrote into the clone only
BestMoveSearched(strategy, state, player, topCandidates, i, bestMove, bestScore, searched) ==
  BestMovePass(strategy, [state |-> state, board |-> searched.board], player, topCandidates,
               i, bestMove, bestScore,
               Score(strategy, searched, topCandidates[i].x, topCandidates[i].y, player))

\* the loop of compute over the top candidates from the i-th on: each pass
\* clones state.board, writes the candidate's stone into the clone and searches
BestMove(strategy, state, player, topCandidates, i, bestMove, bestScore) ==
  IF i > Len(topCandidates) THEN [move |-> bestMove, board |-> state]
  ELSE BestMoveSearched(strategy, state, player, topCandidates, i, bestMove, bestScore,
                        _minimax(strategy,
                                 Put(cloneBoard(state), topCandidates[i].x, topCandidates[i].y,
                                     player),
                                 player, 1, -Infinity, Infinity, FALSE))

\* bestMove || topCandidates[0]
OrFirst(best, topCandidates) ==
  [move |-> IF best.move = NoMove THEN topCandidates[1] ELSE best.move, board |-> best.board]

\* compute with the candidates it generated: the move, and state.board as
\* compute leaves it
Choice(level, b, player, candidates) ==
  IF Len(candidates) = 0
  THEN {[move |-> [x |-> BoardSize \div 2, y |-> BoardSize \div 2, score |-> 0], board |-> b]}
  ELSE IF level = "BEGINNER"
  THEN {[move |-> [x |-> candidates[i].x, y |-> candidates[i].y, score |-> candidates[i].weight],
         board |-> b] :
          i \in 1..Min(15, Len(candidates))}
  ELSE {OrFirst(BestMove(Strategies[level], b, player,
                         Take(candidates, Strategies[level].maxCandidates), 1, NoMove, -Infinity),
                candidates)}

\* the outcomes of strategy.compute: Math.random makes the beginner's choice
\* among the top 15 open, the other tiers have one answer
compute(level, b, player) == Choice(level, b, player, generateCandidateMoves(b, 2))

\* AIEngine.getHint: the normal tier's compute, whatever the difficulty is
getHint(b, player) == compute("NORMAL", b, player)

\* the candidate the fallback loop returns: the first one in list order
\* among those that pass, null when there is none
FirstOf(candidates, passing) ==
  IF passing = {} THEN NoMove
  ELSE [x |-> candidates[CHOOSE i \in passing : \A j \in passing : i <= j].x,
        y |-> candidates[CHOOSE i \in passing : \A j \in passing : i <= j].y,
        score |-> candidates[CHOOSE i \in passing : \A j \in passing : i <= j].weight]

\* the board the fallback loop leaves, and the cells its validateMove calls
\* assigned: the loop validates the candidates up to the one it returns
LeftBy(b, validations, visited) ==
  [board |-> IF \A i \in visited : validations[i].board = b THEN b
             ELSE CHOOSE left \in {validations[i].board : i \in visited} : left # b,
   writes |-> SumOver([i \in visited |-> validations[i].writes], visited)]

\* what the loop returns and leaves, given the candidates that pass
Fallback(candidates, b, validations, tried, passing) ==
  [move |-> FirstOf(candidates, passing),
   left |-> LeftBy(b, validations, {i \in tried : \A j \in passing : i <= j})]

\* the loop of _findFallbackMove: skip the excluded cell, validate the rest
Tried(candidates, b, validations, tried) ==
  Fallback(candidates, b, validations, tried, {i \in tried : validations[i].ret.valid})

\* _findFallbackMove with the candidates it generated and with what
\* validateMove answers for each of them
FirstValid(candidates, b, excludedX, excludedY, validations) ==
  Tried(candidates, b, validations,
        {i \in 1..Len(candidates) :
           ~(candidates[i].x = excludedX /\ candidates[i].y = excludedY)})

Validations(candidates, b, player, rules, eng) ==
  [i \in 1..Len(candidates) |->
     validateMove(b, candidates[i].x, candidates[i].y, player, rules, eng)]

Candidates(candidates, b, player, excludedX, excludedY, rules, eng) ==
  FirstValid(candidates, b, excludedX, excludedY,
             Validations(candidates, b, player, rules, eng))

_findFallbackMove(b, player, excludedX, excludedY, rules, eng) ==
  Candidates(generateCandidateMoves(b, 2), b, player, excludedX, excludedY, rules, eng)

\* the move after validation: a fallback, when one exists, replaces an
\* invalid move; the fallback is looked for only when the move is invalid
Recovered(move, validation, fallback) ==
  IF validation.ret.valid
  THEN [move |-> move, board |-> validation.board, writes |-> validation.writes]
  ELSE [move |-> IF fallback.move # NoMove THEN fallback.move ELSE move,
        board |-> fallback.left.board,
        writes |-> validation.writes + fallback.left.writes]

\* the move compute picked, validated on the board compute left
Validated(move, validation, player, rules, eng) ==
  Recovered(move, validation,
            _findFallbackMove(validation.board, player, move.x, move.y, rules, eng))

\* the outcomes of computeMove: the move it returns (the thinkingTime field
\* is left out), the board it leaves and the cells of it that it assigned
computeMove(b, player, level, rules, eng) ==
  {Validated(picked.move,
             validateMove(picked.board, picked.move.x, picked.move.y, player, rules, eng),
             player, rules, eng) :
     picked \in compute(level, b, player)}

(***************************************************************************)
(* Inputs of the rule-engine specifications                                *)
(***************************************************************************)
\* at most this many of the four axes through the probe point carry stones
MaxArms == 2

\* the probe point: the longest shape below ends at the left border
Center == <<5, 7>>

\* the stones one axis carries, as offsets from the probe point: the line
\* shapes the repository's forbidden-move tests build with setPiece
NoStones == [black |-> {}, white |-> {}]

CoreShapes ==
  { [black |-> {-1, 1}, white |-> {}],              \* three, o X o
    [black |-> {-2, -1, 1}, white |-> {}],          \* four, o o X o
    [black |-> {-4, -3, -2, -1}, white |-> {}],     \* five
    [black |-> {-5, -4, -3, -2, -1}, white |-> {}], \* six
    [black |-> {}, white |-> {-2, -1, 1, 2}] }      \* white five

WideShapes ==
  CoreShapes \cup
  { [black |-> {-2, 1}, white |-> {}],              \* jump three, o . X o
    [black |-> {-1, 2}, white |-> {}],              \* jump three, o X . o
    [black |-> {1, 2}, white |-> {}],               \* three, X o o
    [black |-> {-1, 1}, white |-> {-2}],            \* three, one flank white
    [black |-> {-2, -1, 1}, white |-> {-3}],        \* four, one flank white
    [black |-> {-2, -1, 1}, white |-> {-3, 3}],     \* four, one flank white, far side capped
    [black |-> {-4, -3, -2, 2, 3, 4}, white |-> {}] } \* o o o . X . o o o

ArmChoices(shapes, maxArms) ==
  {arms \in [DirIdx -> shapes \cup {NoStones}] :
     Cardinality({d \in DirIdx : arms[d] # NoStones}) <= maxArms}

\* the board that carries arms[d] on axis d through the centre
ArmBoard(arms) ==
  [row \in 1..BoardSize |-> [col \in 1..BoardSize |->
     LET on(d, k) == /\ col - 1 = Center[1] + BOARD_DIRECTIONS[d].dx * k
                     /\ row - 1 = Center[2] + BOARD_DIRECTIONS[d].dy * k
     IN IF \E d \in DirIdx : \E k \in arms[d].black : on(d, k) THEN Black
        ELSE IF \E d \in DirIdx : \E k \in arms[d].white : on(d, k) THEN White
        ELSE 0]]

\* a saved game: its board and its settings
Snapshot(b, rules) ==
  [board |-> b, currentPlayer |-> Black, moveHistory |-> <<>>, gameStatus |-> "ready",
   settings |-> [forbiddenRules |-> rules, playerSide |-> Black],
   winner |-> 0, winLine |-> <<>>]

\* the saved games whose boards carry the given shapes on at most maxArms axes
Snapshots(shapes, maxArms) ==
  {Snapshot(ArmBoard(arms), rules) : arms \in ArmChoices(shapes, maxArms), rules \in BOOLEAN}

\* where the rule engine is asked about a move
ProbeCells == {Center}
Players == {Black, White}

\* AIEngine's constructor: both sides start at NORMAL
DefaultDifficulty == [p \in Players |-> "NORMAL"]

NoCall == [op |-> "none", x |-> 0, y |-> 0, player |-> 0]
NoRet == [none |-> TRUE]

\* a localStorage item is <<>> when nothing is stored under its key and
\* <<value>> when the JSON text of value is
NoItem == <<>>

(***************************************************************************)
(* The state machine: GameState and the RuleEngine's queries               *)
(***************************************************************************)
Init ==
  /\ board = EmptyBoard
  /\ forbiddenRules = TRUE
  /\ engine \in Engines
  /\ call = NoCall
  /\ ret = NoRet
  /\ writes = 0
  /\ lineArray = <<>>
  /\ difficulty = DefaultDifficulty
  /\ currentPlayer = Black
  /\ moveHistory = <<>>
  /\ gameStatus = "ready"
  /\ currentMode = "PvP"
  /\ playerSide = Black
  /\ aiTimers = 0
  /\ eveAutoPlay = FALSE
  /\ isReplayMode = FALSE
  /\ winner = 0
  /\ winLine = <<>>
  /\ lastGame = NoItem
  /\ autoSaves = NoItem
  /\ now = 0
  /\ sequence = <<>>
  /\ currentIndex = 0
  /\ isPlaying = FALSE
  /\ speed = 10
  /\ timer = 0
  /\ timers = {}
  /\ originalSnapshot = <<>>
  /\ listeners = <<>>
  /\ invoked = <<>>

\* GameState.restoreSnapshot: a saved game replaces the board and the
\* settings
RestoreSnapshot(snapshot) ==
  /\ board' = snapshot.board
  /\ currentPlayer' = snapshot.currentPlayer
  /\ moveHistory' = snapshot.moveHistory
  /\ forbiddenRules' = snapshot.settings.forbiddenRules
  /\ playerSide' = snapshot.settings.playerSide
  /\ gameStatus' = snapshot.gameStatus
  /\ winner' = snapshot.winner
  /\ winLine' = snapshot.winLine
  /\ UNCHANGED <<engine, call, ret, writes, lineArray, difficulty, currentMode, aiTimers,
                 eveAutoPlay, isReplayMode, others>>

\* GameState.setPiece
SetPiece(x, y, player) ==
  /\ isValidPosition(x, y)
  /\ board' = Put(board, x, y, player)
  /\ call' = NoCall
  /\ ret' = NoRet
  /\ writes' = 0
  /\ UNCHANGED <<forbiddenRules, engine, lineArray, difficulty, play, others>>

\* state.settings.forbiddenRules = value
SetForbiddenRules(value) ==
  /\ forbiddenRules' = value
  /\ call' = NoCall
  /\ ret' = NoRet
  /\ writes' = 0
  /\ UNCHANGED <<board, engine, lineArray, difficulty, play, others>>

\* a query is explored on a board nothing was asked about yet, or as the
\* repetition of the query just made
Asked(op, x, y, player) == [op |-> op, x |-> x, y |-> y, player |-> player]

FirstOrRepeated(op, x, y, player) ==
  call = NoCall \/ call = Asked(op, x, y, player)

DetectForbidden(x, y, player) ==
  LET r == detectForbidden(board, x, y, player, forbiddenRules, engine)
  IN /\ FirstOrRepeated("detectForbidden", x, y, player)
     /\ board' = r.board
     /\ ret' = r.ret
     /\ writes' = r.writes
     /\ call' = Asked("detectForbidden", x, y, player)
     /\ UNCHANGED <<forbiddenRules, engine, lineArray, difficulty, play, others>>

ValidateMove(x, y, player) ==
  LET r == validateMove(board, x, y, player, forbiddenRules, engine)
  IN /\ FirstOrRepeated("validateMove", x, y, player)
     /\ board' = r.board
     /\ ret' = r.ret
     /\ writes' = r.writes
     /\ call' = Asked("validateMove", x, y, player)
     /\ UNCHANGED <<forbiddenRules, engine, lineArray, difficulty, play, others>>

CheckWin(x, y, player) ==
  /\ FirstOrRepeated("checkWin", x, y, player)
  /\ ret' = checkWin(board, x, y, player)
  /\ call' = Asked("checkWin", x, y, player)
  /\ writes' = 0
  /\ UNCHANGED <<board, forbiddenRules, engine, lineArray, difficulty, play, others>>

Queries ==
  \/ \E player \in Players : SetPiece(Center[1], Center[2], player)
  \/ \E value \in BOOLEAN : SetForbiddenRules(value)
  \/ \E c \in ProbeCells, player \in Players : DetectForbidden(c[1], c[2], player)
  \/ \E c \in ProbeCells, player \in Players : ValidateMove(c[1], c[2], player)
  \/ \E c \in ProbeCells, player \in Players : CheckWin(c[1], c[2], player)

\* a saved game is loaded into a fresh game only
Fresh == board = EmptyBoard /\ call = NoCall

Next ==
  \/ /\ Fresh
     /\ \E snapshot \in Snapshots(CoreShapes, MaxArms) : RestoreSnapshot(snapshot)
  \/ Queries

Spec == Init /\ [][Next]_vars

\* the same machine over the wider library of line shapes
NextWide ==
  \/ /\ Fresh
     /\ \E snapshot \in Snapshots(WideShapes, 2) : RestoreSnapshot(snapshot)
  \/ Queries

SpecWide == Init /\ [][NextWide]_vars

(***************************************************************************)
(* The pattern counters on their own                                       *)
(***************************************************************************)
\* stones are drawn for the cells at most this far from the centre
LineReach == 3

\* where the board ends: nowhere within the window, or `at` cells from the
\* centre on one side
Borders ==
  {[side |-> 0, at |-> 0]} \cup
  {[side |-> s, at |-> k] : s \in {-1, 1}, k \in 2..LineRange}

\* an array as _getLineArray builds it: 1 at the centre, 3 beyond the border
MakeLine(inner, border) ==
  [i \in 1..(2 * LineRange + 1) |->
     LET offset == i - 1 - LineRange
     IN IF offset = 0 THEN 1
        ELSE IF border.side # 0 /\ border.side * offset >= border.at THEN 3
        ELSE IF offset \in DOMAIN inner THEN inner[offset]
        ELSE 0]

Lines ==
  {MakeLine(inner, border) :
     inner \in [((-LineReach)..LineReach) \ {0} -> {0, 1, 2}], border \in Borders}

InitLine ==
  /\ board = EmptyBoard
  /\ forbiddenRules = TRUE
  /\ engine \in Engines
  /\ call = NoCall
  /\ ret = NoRet
  /\ writes = 0
  /\ lineArray \in Lines
  /\ difficulty = DefaultDifficulty
  /\ currentPlayer = Black
  /\ moveHistory = <<>>
  /\ gameStatus = "ready"
  /\ currentMode = "PvP"
  /\ playerSide = Black
  /\ aiTimers = 0
  /\ eveAutoPlay = FALSE
  /\ isReplayMode = FALSE
  /\ winner = 0
  /\ winLine = <<>>
  /\ lastGame = NoItem
  /\ autoSaves = NoItem
  /\ now = 0
  /\ sequence = <<>>
  /\ currentIndex = 0
  /\ isPlaying = FALSE
  /\ speed = 10
  /\ timer = 0
  /\ timers = {}
  /\ originalSnapshot = <<>>
  /\ listeners = <<>>
  /\ invoked = <<>>

CountOpenThrees ==
  /\ call' = [op |-> "_countOpenThrees", centerIndex |-> CenterIndex(lineArray)]
  /\ ret' = countOpenThreesOf(engine, lineArray, CenterIndex(lineArray))
  /\ UNCHANGED <<board, forbiddenRules, engine, writes, lineArray, difficulty, play, others>>

CountFours ==
  /\ call' = [op |-> "_countFours", centerIndex |-> CenterIndex(lineArray)]
  /\ ret' = countFoursOf(engine, lineArray, CenterIndex(lineArray))
  /\ UNCHANGED <<board, forbiddenRules, engine, writes, lineArray, difficulty, play, others>>

NextLine ==
  \/ CountOpenThrees
  \/ CountFours

SpecLine == InitLine /\ [][NextLine]_vars

(***************************************************************************)
(* The AI engine asked for moves                                           *)
(***************************************************************************)
\* a board without an empty cell and without five in a row: stones in pairs
FullBoard ==
  [row \in 1..BoardSize |-> [col \in 1..BoardSize |->
     IF ((col - 1) + 2 * (row - 1)) % 4 < 2 THEN Black ELSE White]]

\* the full board with Black on cells 2..7 of row 7: once (7,7) is cleared,
\* a Black stone there would complete a run of six
SixBoard == Put(Put(FullBoard, 4, 7, Black), 5, 7, Black)

\* two open twos of Black that cross at the empty probe point
CrossBoard ==
  ArmBoard([d \in DirIdx |-> IF d <= 2 THEN [black |-> {-1, 1}, white |-> {}] ELSE NoStones])

AISnapshots == {Snapshot(FullBoard, TRUE), Snapshot(SixBoard, TRUE), Snapshot(CrossBoard, TRUE)}

\* the cells a stone is taken from
ClearedCells == {<<7, 7>>, <<0, 0>>}

\* AIEngine.setDifficulty, explored as the first change after construction
SetDifficulty(player, level) ==
  /\ difficulty = DefaultDifficulty
  /\ level \in Levels
  /\ difficulty' = [difficulty EXCEPT ![player] = level]
  /\ call' = NoCall
  /\ ret' = NoRet
  /\ writes' = 0
  /\ UNCHANGED <<board, forbiddenRules, engine, lineArray, play, others>>

\* AIEngine.computeMove, asked on a board nothing was asked about yet
ComputeMove(player) ==
  /\ call = NoCall
  /\ \E computed \in computeMove(board, player, difficulty[player], forbiddenRules, engine) :
       /\ ret' = computed.move
       /\ board' = computed.board
       /\ writes' = computed.writes
  /\ call' = [op |-> "computeMove", player |-> player]
  /\ UNCHANGED <<forbiddenRules, engine, lineArray, difficulty, play, others>>

NextAI ==
  \/ /\ Fresh
     /\ \E snapshot \in AISnapshots : RestoreSnapshot(snapshot)
  \/ \E c \in ClearedCells : SetPiece(c[1], c[2], 0)
  \/ \E player \in Players, level \in Levels : SetDifficulty(player, level)
  \/ \E player \in Players : ComputeMove(player)

SpecAI == Init /\ [][NextAI]_vars

(***************************************************************************)
(* What the properties below speak about, stated on the board alone        *)
(***************************************************************************)
\* the cell k steps from (x, y) along axis d
StepFrom(x, y, d, k) ==
  <<x + BOARD_DIRECTIONS[d].dx * k, y + BOARD_DIRECTIONS[d].dy * k>>

Holds(b, c, player) ==
  /\ c[1] \in Coords
  /\ c[2] \in Coords
  /\ At(b, c[1], c[2]) = player

\* n consecutive cells of axis d, (x, y) among them, all hold the player's stones
RunOf(b, x, y, player, d, n) ==
  \E s \in 0..(n - 1) : \A k \in 0..(n - 1) : Holds(b, StepFrom(x, y, d, k - s), player)

QueryOps == {"detectForbidden", "validateMove", "checkWin"}

\* the last call was detectForbidden for a Black move at an empty cell, rules on
BlackProbe ==
  /\ call.op = "detectForbidden"
  /\ call.player = Black
  /\ forbiddenRules
  /\ At(board, call.x, call.y) = 0

\* the board with the stone the last call asked about
Placed == Put(board, call.x, call.y, call.player)

(***************************************************************************)
(* Properties                                                              *)
(***************************************************************************)
\* C2: detectForbidden, validateMove and checkWin leave every cell of the
\* board as it was on every return path, and a call repeated on the
\* unchanged board returns what the first call returned.
C2_QueriesLeaveBoard ==
  [][call'.op \in QueryOps =>
       /\ board' = board
       /\ call = call' => ret' = ret]_vars

\* a double-four verdict was returned: the trial stone was written and
\* taken back
C2_Witness ==
  /\ BlackProbe
  /\ ret.isForbidden
  /\ ret.type = "double_four"
  /\ writes = 2

\* C6: with rules enabled, a Black move at an empty cell is long_line
\* exactly when the stone lies in a run of six or more Black stones on some
\* axis, whatever fours or threes the move also forms.
C6_LongLineIffSix ==
  BlackProbe =>
    ((ret.isForbidden /\ ret.type = "long_line")
       <=> \E d \in DirIdx : RunOf(Placed, call.x, call.y, Black, d, 6))

\* an overline on one axis together with a four on another axis
C6_Witness ==
  /\ BlackProbe
  /\ ret.type = "long_line"
  /\ \E d, e \in DirIdx :
       /\ d # e
       /\ RunOf(Placed, call.x, call.y, Black, d, 6)
       /\ RunOf(Placed, call.x, call.y, Black, e, 4)
       /\ ~RunOf(Placed, call.x, call.y, Black, e, 5)

\* C9: detectForbidden answers not forbidden for every White move, and for
\* every Black move while the rules are off, and writes no cell in doing so.
C9_WhiteAndRulesOff ==
  (call.op = "detectForbidden" /\ (call.player # Black \/ ~forbiddenRules)) =>
    /\ ~ret.isForbidden
    /\ writes = 0

\* rules off, and the Black move would complete a run of six
C9_Witness ==
  /\ call.op = "detectForbidden"
  /\ call.player = Black
  /\ ~forbiddenRules
  /\ At(board, call.x, call.y) = 0
  /\ \E d \in DirIdx : RunOf(Placed, call.x, call.y, Black, d, 6)
  /\ ~ret.isForbidden

\* the axes on which the stone asked about lies in a run of five or more
FiveAxes == {d \in DirIdx : RunOf(board, call.x, call.y, call.player, d, 5)}

\* line is the whole run through (x, y) on axis d, listed in axis order
CompleteRun(line, d) ==
  /\ Len(line) >= 5
  /\ \E i \in 1..Len(line) : line[i] = <<call.x, call.y>>
  /\ \A i \in 1..Len(line) : Holds(board, line[i], call.player)
  /\ \A i \in 1..(Len(line) - 1) :
       line[i + 1] = StepFrom(line[i][1], line[i][2], d, 1)
  /\ ~Holds(board, StepFrom(line[1][1], line[1][2], d, -1), call.player)
  /\ ~Holds(board, StepFrom(line[Len(line)][1], line[Len(line)][2], d, 1), call.player)

\* C10: checkWin at a cell holding the player's stone reports a win exactly
\* when some axis has a run of five or more through the cell, and winLine
\* is then the complete run on the first such axis in the order horizontal,
\* vertical, diagDown, diagUp.
C10_CheckWin ==
  (call.op = "checkWin" /\ At(board, call.x, call.y) = call.player) =>
    /\ ret.isWin <=> FiveAxes # {}
    /\ ret.isWin =>
         LET d == CHOOSE e \in FiveAxes : \A f \in FiveAxes : e <= f
         IN /\ ret.direction = BOARD_DIRECTIONS[d].name
            /\ CompleteRun(ret.winLine, d)

\* runs of five or more on two axes, the first of them is not the
\* horizontal one and is reported
C10_Witness ==
  /\ call.op = "checkWin"
  /\ At(board, call.x, call.y) = call.player
  /\ ret.isWin
  /\ Cardinality(FiveAxes) = 2
  /\ ret.direction = "vertical"
  /\ Len(ret.winLine) = 5

\* what the axis d through the cell asked about holds, k steps from the cell,
\* once the stone is placed
BlackAt(d, k) == Holds(Placed, StepFrom(call.x, call.y, d, k), Black)
EmptyAt(d, k) == Holds(Placed, StepFrom(call.x, call.y, d, k), 0)

BlackOffsets(d) == {k \in (-LineRange)..LineRange : BlackAt(d, k)}

FiveOrMore == \E d \in DirIdx : RunOf(Placed, call.x, call.y, Black, d, 5)
SixOrMore == \E d \in DirIdx : RunOf(Placed, call.x, call.y, Black, d, 6)

\* three Black stones with the placed one among them, contiguous or with one
\* internal gap, both flanks empty
OpenThreeOn(d) ==
  \E lo \in -3..0, len \in {3, 4} :
    LET hi == lo + len - 1
    IN /\ hi >= 0
       /\ BlackAt(d, lo)
       /\ BlackAt(d, hi)
       /\ Cardinality({k \in lo..hi : BlackAt(d, k)}) = 3
       /\ \A k \in lo..hi : BlackAt(d, k) \/ EmptyAt(d, k)
       /\ EmptyAt(d, lo - 1)
       /\ EmptyAt(d, hi + 1)

\* a run of exactly four Black stones through the placed one with an empty
\* flank: an open four when both flanks are empty, a rush four when the
\* other flank is White or the border
FourOn(d) ==
  \E lo \in -3..0 :
    /\ \A k \in lo..(lo + 3) : BlackAt(d, k)
    /\ ~BlackAt(d, lo - 1)
    /\ ~BlackAt(d, lo + 4)
    /\ EmptyAt(d, lo - 1) \/ EmptyAt(d, lo + 4)

\* four Black stones among five consecutive cells through the placed one
FourShapeOn(d) ==
  \E lo \in -4..0 : Cardinality({k \in lo..(lo + 4) : BlackAt(d, k)}) >= 4

\* the totals detectForbidden computes over the four axes
Totals ==
  LET directionStats == _analyzeDirections(Placed, call.x, call.y, Black, engine)
  IN [openThrees |-> SumOver([d \in DirIdx |-> directionStats[d].openThrees], DirIdx),
      openFours |-> SumOver([d \in DirIdx |-> directionStats[d].openFours], DirIdx),
      rushFours |-> SumOver([d \in DirIdx |-> directionStats[d].rushFours], DirIdx)]

\* C3: with rules enabled, a Black move at an empty cell that makes a run of
\* exactly five on some axis and no run of six or more on any axis is not
\* forbidden.
C3_FiveNotForbidden ==
  (BlackProbe /\ FiveOrMore /\ ~SixOrMore) => ~ret.isForbidden

\* C4: a Black move whose only Black neighbours within the line range are
\* two stones forming one open three with it is not forbidden, and the
\* open threes counted over the four axes total 1.
C4_SingleOpenThree ==
  (/\ BlackProbe
   /\ \E d \in DirIdx :
        /\ OpenThreeOn(d)
        /\ Cardinality(BlackOffsets(d)) = 3
        /\ \A e \in DirIdx \ {d} : BlackOffsets(e) = {0})
  => /\ ~ret.isForbidden
     /\ Totals.openThrees = 1

\* C7: with rules enabled, a Black move that forms a four (open, or rush
\* with one flank empty and the other blocked) on each of two axes and no
\* run of five or more is forbidden as double_four, also when it forms two
\* open threes.
C7_DoubleFour ==
  (/\ BlackProbe
   /\ ~FiveOrMore
   /\ \E d, e \in DirIdx : d # e /\ FourOn(d) /\ FourOn(e))
  => /\ ret.isForbidden
     /\ ret.type = "double_four"

\* C8: with rules enabled, a Black move that forms an open three on each of
\* two axes, no four and no run of five or more is forbidden as double_three
\* with at least two open threes reported.
C8_DoubleThree ==
  (/\ BlackProbe
   /\ ~FiveOrMore
   /\ \A d \in DirIdx : ~FourShapeOn(d)
   /\ \E d, e \in DirIdx : d # e /\ OpenThreeOn(d) /\ OpenThreeOn(e))
  => /\ ret.isForbidden
     /\ ret.type = "double_three"
     /\ ret.openThrees >= 2

\* the sub-windows of the array that the loaded source takes for an open
\* three, an open four, a rush four
Matching ==
  LET centerIndex == CenterIndex(lineArray)
  IN IF engine = "RuleEngine.js"
     THEN [openThrees |-> OpenThreeWindows(lineArray, centerIndex),
           openFours |-> FourWindows(lineArray, centerIndex).seenOpen,
           rushFours |-> FourWindows(lineArray, centerIndex).seenRush]
     ELSE [openThrees |-> PatternWindows(lineArray, centerIndex, OpenThreePatterns),
           openFours |-> PatternWindows(lineArray, centerIndex, OpenFourPatterns),
           rushFours |-> RushFourWindows(lineArray, centerIndex)]

\* the distinct sets of own-stone positions among a set of sub-windows
StoneSets(windows) == {{i \in w[1]..w[2] : lineArray[i + 1] = 1} : w \in windows}

\* C5: for every axis window, the open threes counted equal the distinct
\* sets of own-stone positions among the matching sub-windows, and likewise
\* the open fours and the rush fours (a stone set already counted as an open
\* four is not a rush four as well): one physical three or four counts once.
C5_CountedByStoneSets ==
  /\ call.op = "_countOpenThrees" =>
       ret = Cardinality(StoneSets(Matching.openThrees))
  /\ call.op = "_countFours" =>
       /\ ret.openFours = Cardinality(StoneSets(Matching.openFours))
       /\ ret.rushFours =
            Cardinality(StoneSets(Matching.rushFours) \ StoneSets(Matching.openFours))

\* C1: the cell computeMove returns passes validateMove for the same player
\* on the unchanged board, also when the strategy's pick is invalid and when
\* no candidate exists.
C1_ComputedMoveIsValid ==
  call.op = "computeMove" =>
    validateMove(board, ret.x, ret.y, call.player, forbiddenRules, engine).ret.valid

(***************************************************************************)
(* validateMove asked about cells on and off the board                     *)
(***************************************************************************)
\* the cells validateMove is asked about: the probe point, and cells beyond
\* each border and beyond a corner
AskedCells == {Center, <<-1, 7>>, <<15, 7>>, <<5, -1>>, <<5, 15>>, <<-1, -1>>, <<15, 15>>}

NextAsk ==
  \/ /\ Fresh
     /\ \E snapshot \in Snapshots(CoreShapes, 1) : RestoreSnapshot(snapshot)
  \/ \E player \in Players : SetPiece(Center[1], Center[2], player)
  \/ \E value \in BOOLEAN : SetForbiddenRules(value)
  \/ \E c \in AskedCells, player \in Players : ValidateMove(c[1], c[2], player)

SpecAsk == Init /\ [][NextAsk]_vars

\* C15: validateMove returns one structured outcome, decided in the order
\* out_of_bounds (any cell off the board), position_occupied (cell not
\* empty), forbidden_move with the detector's verdict (Black, rules enabled,
\* detectForbidden reports forbidden), and valid otherwise.
C15_ValidateMoveOutcome ==
  call.op = "validateMove" =>
    LET onBoard == call.x \in Coords /\ call.y \in Coords
        verdict == detectForbidden(board, call.x, call.y, call.player, forbiddenRules, engine).ret
        expected ==
          IF ~onBoard THEN "out_of_bounds"
          ELSE IF At(board, call.x, call.y) # 0 THEN "position_occupied"
          ELSE IF call.player = Black /\ forbiddenRules /\ verdict.isForbidden
          THEN "forbidden_move"
          ELSE "none"
    IN /\ ret.error = expected
       /\ ret.valid <=> expected = "none"
       /\ expected = "forbidden_move" => ret.forbiddenInfo = verdict

\* an off-board cell was asked about while the probe point is occupied
C15_Witness ==
  /\ call.op = "validateMove"
  /\ call.x = -1
  /\ At(board, Center[1], Center[2]) # 0
  /\ ret.error = "out_of_bounds"

\* a run of exactly four Black stones through the placed one, both flanks empty
OpenFourOn(d) ==
  \E lo \in -3..0 :
    /\ \A k \in lo..(lo + 3) : BlackAt(d, k)
    /\ EmptyAt(d, lo - 1)
    /\ EmptyAt(d, lo + 4)

\* C17: a Black move whose only Black neighbours within the line range are
\* three stones forming one open four with it is not forbidden, and the
\* fours counted over the four axes (open and rush) total 1.
C17_SingleOpenFour ==
  (/\ BlackProbe
   /\ \E d \in DirIdx :
        /\ OpenFourOn(d)
        /\ Cardinality(BlackOffsets(d)) = 4
        /\ \A e \in DirIdx \ {d} : BlackOffsets(e) = {0})
  => /\ ~ret.isForbidden
     /\ Totals.openFours + Totals.rushFours = 1

\* C18: a Black move that forms one four on one axis and one open three on
\* another, these five stones being its only Black neighbours within the
\* line range, is not forbidden; one four and one open three are counted.
C18_FourThree ==
  (/\ BlackProbe
   /\ \E d, e \in DirIdx :
        /\ d # e
        /\ FourOn(d)
        /\ Cardinality(BlackOffsets(d)) = 4
        /\ OpenThreeOn(e)
        /\ Cardinality(BlackOffsets(e)) = 3
        /\ \A f \in DirIdx \ {d, e} : BlackOffsets(f) = {0})
  => /\ ~ret.isForbidden
     /\ Totals.openFours + Totals.rushFours = 1
     /\ Totals.openThrees = 1

(***************************************************************************)
(* The AI engine asked for a move that wins at once                        *)
(***************************************************************************)
\* the board after setPiece calls that put Black and White on the given cells
StonesBoard(black, white) ==
  [row \in 1..BoardSize |-> [col \in 1..BoardSize |->
     IF <<col - 1, row - 1>> \in black THEN Black
     ELSE IF <<col - 1, row - 1>> \in white THEN White
     ELSE 0]]

\* White has four in a row at the centre with both ends empty, Black three
\* in a row below it
CentreFourBoard ==
  StonesBoard({<<5, 8>>, <<6, 8>>, <<7, 8>>}, {<<5, 7>>, <<6, 7>>, <<7, 7>>, <<8, 7>>})

\* White has four in a row in the corner, the other stones are at the centre
EdgeFourBoard ==
  StonesBoard({<<7, 7>>, <<8, 7>>, <<7, 8>>, <<6, 6>>},
              {<<0, 0>>, <<1, 0>>, <<2, 0>>, <<3, 0>>, <<8, 8>>})

WinSnapshots == {Snapshot(CentreFourBoard, TRUE), Snapshot(EdgeFourBoard, TRUE)}

\* the side that is asked for its move: the one with the four
Movers == {White}

NextWin ==
  \/ /\ Fresh
     /\ \E snapshot \in WinSnapshots : RestoreSnapshot(snapshot)
  \/ \E player \in Movers, level \in Levels : SetDifficulty(player, level)
  \/ \E player \in Movers : ComputeMove(player)

SpecWin == Init /\ [][NextWin]_vars

\* a stone of the player at c would lie in a run of five or more
CompletesFive(b, c, player) ==
  \E d \in DirIdx : RunOf(Put(b, c[1], c[2], player), c[1], c[2], player, d, 5)

\* an empty cell next to four contiguous stones of the player on some axis,
\* where the player may legally move
WinningCells(player) ==
  {c \in Coords \X Coords :
     /\ At(board, c[1], c[2]) = 0
     /\ \E d \in DirIdx, s \in {-1, 1} :
          \A k \in 1..4 : Holds(board, StepFrom(c[1], c[2], d, s * k), player)
     /\ validateMove(board, c[1], c[2], player, forbiddenRules, engine).ret.valid}

\* C11: at the Normal, Hard and Hell tiers, when the side asked has four
\* contiguous stones with an empty, legal cell next to them, computeMove
\* returns a cell that completes five in a row.
C11_TakesTheWin ==
  (/\ call.op = "computeMove"
   /\ difficulty[call.player] \in {"NORMAL", "HARD", "HELL"}
   /\ WinningCells(call.player) # {})
  => /\ isValidPosition(ret.x, ret.y)
     /\ At(board, ret.x, ret.y) = 0
     /\ CompletesFive(board, <<ret.x, ret.y>>, call.player)

(***************************************************************************)
(* computeMove when the fallback is exhausted                              *)
(***************************************************************************)
\* every move the strategy can pick fails validateMove, and _findFallbackMove
\* finds no other candidate that passes
Exhausted(b, player, level, rules, eng) ==
  \A picked \in compute(level, b, player) :
    /\ ~validateMove(b, picked.move.x, picked.move.y, player, rules, eng).ret.valid
    /\ _findFallbackMove(b, player, picked.move.x, picked.move.y, rules, eng).move = NoMove

\* C12: when the strategy's pick fails validateMove and no other candidate
\* passes, computeMove does not hand back a cell: its result is the failure
\* outcome, which no caller can take for a move.
C12_ExhaustedIsSignalled ==
  (/\ call.op = "computeMove"
   /\ Exhausted(board, call.player, difficulty[call.player], forbiddenRules, engine))
    => ret = NoMove

(***************************************************************************)
(* The searches and the boards they write into                             *)
(***************************************************************************)
\* AIEngine.getHint, asked on a board nothing was asked about yet
GetHint(player) ==
  /\ call = NoCall
  /\ \E picked \in getHint(board, player) :
       /\ ret' = picked.move
       /\ board' = picked.board
  /\ call' = [op |-> "getHint", player |-> player]
  /\ writes' = 0
  /\ UNCHANGED <<forbiddenRules, engine, lineArray, difficulty, play, others>>

\* _minimax of the player's strategy, invoked as compute invokes it: on a
\* clone of state.board that holds the candidate's stone, at depth 1. The
\* window and the side to maximize are those of any level of the search.
Minimax(player, x, y, alpha, beta, isMaximizing) ==
  /\ call = NoCall
  /\ difficulty[player] \in {"NORMAL", "HARD", "HELL"}
  /\ isValidPosition(x, y)
  /\ At(board, x, y) = 0
  /\ ret' = _minimax(Strategies[difficulty[player]], Put(cloneBoard(board), x, y, player),
                     player, 1, alpha, beta, isMaximizing)
  /\ call' = [op |-> "_minimax", player |-> player,
              board |-> Put(cloneBoard(board), x, y, player),
              alpha |-> alpha, beta |-> beta, isMaximizing |-> isMaximizing]
  /\ writes' = 0
  /\ UNCHANGED <<board, forbiddenRules, engine, lineArray, difficulty, play, others>>

SearchSnapshots == {Snapshot(CrossBoard, TRUE)}

\* the side whose difficulty is set and whose move is computed
SearchMovers == {Black}

\* the candidate whose stone the clone holds
SearchCells == {<<6, 6>>}

\* the windows _minimax is invoked with: the one compute passes, and a
\* narrow one as deeper levels pass
SearchWindows == {<<-Infinity, Infinity>>, <<0, 1000>>}

NextSearch ==
  \/ /\ Fresh
     /\ \E snapshot \in SearchSnapshots : RestoreSnapshot(snapshot)
  \/ \E player \in SearchMovers, level \in Levels : SetDifficulty(player, level)
  \/ \E player \in SearchMovers : ComputeMove(player)
  \/ \E player \in Players : GetHint(player)
  \/ \E player \in SearchMovers, c \in SearchCells, window \in SearchWindows,
        isMaximizing \in BOOLEAN :
       Minimax(player, c[1], c[2], window[1], window[2], isMaximizing)

SpecSearch == Init /\ [][NextSearch]_vars

\* C13: computeMove and getHint leave every cell of GameState.board as it
\* was, whatever the tier, and _minimax returns with the board it was given
\* in the state it was given, also when a loop is left on beta <= alpha.
C13_SearchLeavesBoard ==
  [][/\ call'.op \in {"computeMove", "getHint"} => board' = board
     /\ call'.op = "_minimax" => ret'.board = call'.board]_vars

\* a maximizing loop was left on beta <= alpha: the window was open on entry
\* and the returned maximum reaches beta
C13_Witness ==
  /\ call.op = "_minimax"
  /\ call.isMaximizing
  /\ call.alpha < call.beta
  /\ ret.value >= call.beta
  /\ ret.board = call.board

(***************************************************************************)
(* GameState moves and ModeManager, js/core/GameState.js and               *)
(* js/core/ModeManager.js                                                  *)
(***************************************************************************)
\* the GameState fields the game flow reads and writes, with the
\* ModeManager's mode and pending timers
Game ==
  [board |-> board, currentPlayer |-> currentPlayer, moveHistory |-> moveHistory,
   gameStatus |-> gameStatus, currentMode |-> currentMode, playerSide |-> playerSide,
   aiTimers |-> aiTimers, eveAutoPlay |-> eveAutoPlay, isReplayMode |-> isReplayMode,
   winner |-> winner, winLine |-> winLine]

\* the state after a handler: every field is written from the record
Becomes(g) ==
  /\ board' = g.board
  /\ currentPlayer' = g.currentPlayer
  /\ moveHistory' = g.moveHistory
  /\ gameStatus' = g.gameStatus
  /\ currentMode' = g.currentMode
  /\ playerSide' = g.playerSide
  /\ aiTimers' = g.aiTimers
  /\ eveAutoPlay' = g.eveAutoPlay
  /\ isReplayMode' = g.isReplayMode
  /\ winner' = g.winner
  /\ winLine' = g.winLine

\* GameState.applyMove; a move without player has player 0 here
applyMove(g, move) ==
  LET player == IF move.player # 0 THEN move.player ELSE g.currentPlayer
  IN IF ~isValidPosition(move.x, move.y)
     THEN [success |-> FALSE, error |-> "Position out of bounds", game |-> g]
     ELSE IF At(g.board, move.x, move.y) # 0
     THEN [success |-> FALSE, error |-> "Position occupied", game |-> g]
     ELSE IF g.gameStatus = "finished"
     THEN [success |-> FALSE, error |-> "Game already finished", game |-> g]
     ELSE [success |-> TRUE, error |-> "none",
           game |-> [g EXCEPT
                       !.board = Put(@, move.x, move.y, player),
                       !.moveHistory = Append(@, [step |-> Len(@) + 1, x |-> move.x,
                                                  y |-> move.y, player |-> player]),
                       !.gameStatus = IF @ = "ready" THEN "playing" ELSE @]]

\* undoMove that pops the record and leaves the stone on the board
undoMove_KeepStone(g) ==
  IF Len(g.moveHistory) = 0
  THEN [success |-> FALSE, move |-> NoMove, game |-> g]
  ELSE [success |-> TRUE, move |-> g.moveHistory[Len(g.moveHistory)],
        game |-> [g EXCEPT
                    !.moveHistory = SubSeq(@, 1, Len(@) - 1),
                    !.gameStatus = IF Len(g.moveHistory) = 1 THEN "ready" ELSE @]]

\* GameState.undoMove
undoMove(g) ==
  IF Len(g.moveHistory) = 0
  THEN [success |-> FALSE, move |-> NoMove, game |-> g]
  ELSE LET lastMove == g.moveHistory[Len(g.moveHistory)]
       IN [success |-> TRUE, move |-> lastMove,
           game |-> [g EXCEPT
                       !.board = Put(@, lastMove.x, lastMove.y, 0),
                       !.moveHistory = SubSeq(@, 1, Len(@) - 1),
                       !.gameStatus = IF Len(g.moveHistory) = 1 THEN "ready" ELSE @]]

\* GameState.switchPlayer
switchPlayer(g) == [g EXCEPT !.currentPlayer = IF @ = 1 THEN 2 ELSE 1]

\* GameState.finishGame
finishGame(g, result) ==
  [g EXCEPT !.gameStatus = "finished", !.winner = result.winner, !.winLine = result.winLine]

\* ModeManager.stopEvE; eveIntervalId is never set
stopEvE(g) == [g EXCEPT !.eveAutoPlay = FALSE]

\* GameState.canContinue
canContinue(g) ==
  /\ g.gameStatus # "finished"
  /\ \E y \in Coords, x \in Coords : At(g.board, x, y) = 0

\* ModeManager.shouldAIMove
shouldAIMove(g) ==
  IF g.isReplayMode THEN FALSE
  ELSE IF g.gameStatus = "finished" THEN FALSE
  ELSE IF g.currentMode = "PvP" THEN FALSE
  ELSE IF g.currentMode = "EvE" THEN g.eveAutoPlay
  ELSE IF g.currentMode = "PvE" THEN g.currentPlayer # g.playerSide
  ELSE FALSE

\* handleMove after the move was applied and checkWin has answered
Checked(g, winCheck) ==
  IF winCheck.isWin
  THEN stopEvE(finishGame(g, [winner |-> g.currentPlayer, winLine |-> winCheck.winLine]))
  ELSE IF ~canContinue(g) THEN stopEvE(finishGame(g, [winner |-> 0, winLine |-> <<>>]))
  ELSE IF shouldAIMove(switchPlayer(g))
  THEN [switchPlayer(g) EXCEPT !.aiTimers = @ + 1]
  ELSE switchPlayer(g)

\* handleMove after applyMove has answered
Applied(x, y, moveResult) ==
  IF ~moveResult.success THEN [ret |-> FALSE, game |-> moveResult.game]
  ELSE [ret |-> TRUE,
        game |-> Checked(moveResult.game,
                         checkWin(moveResult.game.board, x, y, moveResult.game.currentPlayer))]

\* handleMove after validateMove has answered
Validation(g, x, y, validation) ==
  IF ~validation.ret.valid
  THEN [ret |-> FALSE, game |-> [g EXCEPT !.board = validation.board]]
  ELSE Applied(x, y, applyMove([g EXCEPT !.board = validation.board],
                               [x |-> x, y |-> y, player |-> 0]))

\* ModeManager.handleMove: what it returns and the game it leaves
handleMove(g, x, y, rules, eng) ==
  IF g.isReplayMode THEN [ret |-> FALSE, game |-> g]
  ELSE IF g.gameStatus = "finished" THEN [ret |-> FALSE, game |-> g]
  ELSE Validation(g, x, y, validateMove(g.board, x, y, g.currentPlayer, rules, eng))

\* ModeManager.triggerAIMove: the games it can leave
triggerAIMove(g, levels, rules, eng) ==
  IF g.gameStatus = "finished" THEN {g}
  ELSE {handleMove([g EXCEPT !.board = computed.board], computed.move.x, computed.move.y,
                   rules, eng).game :
          computed \in computeMove(g.board, g.currentPlayer, levels[g.currentPlayer], rules, eng)}

\* the second undoMove of ModeManager.undo, which takes back the move before
\* the machine's one
Undone(g, result) ==
  IF /\ result.success
     /\ g.currentMode = "PvE"
     /\ Len(result.game.moveHistory) > 0
     /\ result.game.moveHistory[Len(result.game.moveHistory)].player # g.playerSide
  THEN [ret |-> result.success, game |-> undoMove(result.game).game]
  ELSE [ret |-> result.success, game |-> result.game]

\* ModeManager.undo
undo(g) ==
  IF g.currentMode = "EvE" /\ g.eveAutoPlay THEN [ret |-> FALSE, game |-> g]
  ELSE Undone(g, undoMove(g))

\* at most this many moves are on the board
MaxMoves == 3

\* at most this many timers are pending
MaxTimers == 1

\* the cells a player clicks
ClickedCells == {<<7, 7>>, <<7, 8>>, <<8, 8>>}

\* ModeManager.setMode('PvE', options), the first call on a new game
SetMode(mode, aiDifficulty, side) ==
  /\ call = NoCall
  /\ moveHistory = <<>>
  /\ currentMode = "PvP"
  /\ mode = "PvE"
  /\ currentMode' = mode
  /\ playerSide' = side
  /\ difficulty' = [difficulty EXCEPT ![IF side = 1 THEN 2 ELSE 1] = aiDifficulty]
  /\ eveAutoPlay' = FALSE
  /\ UNCHANGED <<board, forbiddenRules, engine, call, ret, writes, lineArray, currentPlayer,
                 moveHistory, gameStatus, aiTimers, isReplayMode, winner, winLine, others>>

HandleMove(x, y) ==
  /\ Len(moveHistory) < MaxMoves
  /\ aiTimers < MaxTimers
  /\ \E handled \in {handleMove(Game, x, y, forbiddenRules, engine)} :
       /\ Becomes(handled.game)
       /\ ret' = handled.ret
  /\ call' = [op |-> "handleMove", x |-> x, y |-> y, player |-> currentPlayer]
  /\ writes' = 0
  /\ UNCHANGED <<forbiddenRules, engine, lineArray, difficulty, others>>

\* the timer set by handleMove fires
TriggerAIMove ==
  /\ Len(moveHistory) < MaxMoves
  /\ aiTimers > 0
  /\ \E g \in triggerAIMove([Game EXCEPT !.aiTimers = @ - 1], difficulty, forbiddenRules,
                            engine) :
       Becomes(g)
  /\ call' = [op |-> "triggerAIMove", x |-> 0, y |-> 0, player |-> currentPlayer]
  /\ ret' = NoRet
  /\ writes' = 0
  /\ UNCHANGED <<forbiddenRules, engine, lineArray, difficulty, others>>

Undo ==
  /\ \E undone \in {undo(Game)} :
       /\ Becomes(undone.game)
       /\ ret' = undone.ret
  /\ call' = [op |-> "undo", x |-> 0, y |-> 0, player |-> currentPlayer]
  /\ writes' = 0
  /\ UNCHANGED <<forbiddenRules, engine, lineArray, difficulty, others>>

NextMode ==
  \/ \E side \in Players : SetMode("PvE", "NORMAL", side)
  \/ \E c \in ClickedCells : HandleMove(c[1], c[2])
  \/ TriggerAIMove
  \/ Undo

SpecMode == Init /\ [][NextMode]_vars

\* how many stones of the player the board holds
Stones(b, player) == Cardinality({c \in Coords \X Coords : At(b, c[1], c[2]) = player})

\* C14: in every state of a game played through handleMove, triggerAIMove
\* and undo, in PvP and in PvE, Black has as many stones on the board as
\* White or one more.
C14_StonesAlternate ==
  Stones(board, Black) - Stones(board, White) \in {0, 1}

(***************************************************************************)
(* evaluateBoard on boards with many fours                                 *)
(***************************************************************************)
\* MathUtils.evaluateBoard, asked on a board nothing was asked about yet
EvaluateBoard(player) ==
  /\ call = NoCall
  /\ ret' = evaluateBoard(board, player)
  /\ call' = [op |-> "evaluateBoard", x |-> 0, y |-> 0, player |-> player]
  /\ writes' = 0
  /\ UNCHANGED <<board, forbiddenRules, engine, lineArray, difficulty, play, others>>

\* at most this many open fours are on a board
MaxFours == 12

\* the cells of the k-th open four (k from 1): two on every second row, with
\* empty cells at both ends and an empty row between the rows
FourCells(k) ==
  {<<(IF k % 2 = 1 THEN 1 ELSE 8) + i, 2 * ((k - 1) \div 2)>> : i \in 0..3}

\* five in a row on the last row
FiveCells == {<<5 + i, 14>> : i \in 0..4}

\* n open fours of Black, with or without the five
FoursBoard(n, five) ==
  StonesBoard(UNION {FourCells(k) : k \in 1..n} \cup (IF five THEN FiveCells ELSE {}), {})

ScoreSnapshots == {Snapshot(FoursBoard(n, five), TRUE) : n \in 0..MaxFours, five \in BOOLEAN}

NextScore ==
  \/ /\ Fresh
     /\ \E snapshot \in ScoreSnapshots : RestoreSnapshot(snapshot)
  \/ \E player \in Players : EvaluateBoard(player)

SpecScore == Init /\ [][NextScore]_vars

\* the player has five or more stones in a row on the board
HasFive(b, player) ==
  \E c \in Coords \X Coords, d \in DirIdx : RunOf(b, c[1], c[2], player, d, 5)

\* C16: a position without a five of the player, whatever fours, threes and
\* twos it holds, scores strictly less in evaluateBoard than any position in
\* which the player has five in a row.
C16_FiveDominates ==
  (call.op = "evaluateBoard" /\ ~HasFive(board, call.player))
    => \A snapshot \in ScoreSnapshots :
         HasFive(snapshot.board, call.player)
           => ret < evaluateBoard(snapshot.board, call.player)

(***************************************************************************)
(* generateCandidateMoves on its own                                       *)
(***************************************************************************)
\* MathUtils.generateCandidateMoves(board, radius), asked on a board nothing
\* was asked about yet
GenerateCandidateMoves(radius) ==
  /\ call = NoCall
  /\ ret' = generateCandidateMoves(board, radius)
  /\ call' = [op |-> "generateCandidateMoves", x |-> 0, y |-> 0, player |-> 0,
              radius |-> radius]
  /\ writes' = 0
  /\ UNCHANGED <<board, forbiddenRules, engine, lineArray, difficulty, play, others>>

\* the largest radius asked for; the callers of the repository pass 2
MaxRadius == 2

CandidateSnapshots == Snapshots(CoreShapes, 1) \cup AISnapshots \cup WinSnapshots

NextCandidates ==
  \/ /\ Fresh
     /\ \E snapshot \in CandidateSnapshots : RestoreSnapshot(snapshot)
  \/ \E radius \in 0..MaxRadius : GenerateCandidateMoves(radius)

SpecCandidates == Init /\ [][NextCandidates]_vars

\* the empty cells of the board that lie in the square of side
\* 2 * radius + 1 around at least one stone
Reached(b, radius) ==
  {c \in Coords \X Coords :
     /\ At(b, c[1], c[2]) = 0
     /\ \E dx \in (-radius)..radius, dy \in (-radius)..radius :
          /\ isValidPosition(c[1] + dx, c[2] + dy)
          /\ At(b, c[1] + dx, c[2] + dy) # 0}

\* C19: on the empty board generateCandidateMoves returns the centre alone;
\* on any other board it returns every empty cell within radius (in both
\* coordinates) of a stone, each once and nothing else, heaviest first.
C19_CandidateMoves ==
  call.op = "generateCandidateMoves" =>
    IF board = EmptyBoard
    THEN /\ Len(ret) = 1
         /\ ret[1].x = BoardSize \div 2
         /\ ret[1].y = BoardSize \div 2
    ELSE /\ {<<ret[i].x, ret[i].y>> : i \in 1..Len(ret)} = Reached(board, call.radius)
         /\ Len(ret) = Cardinality(Reached(board, call.radius))
         /\ \A i \in 1..(Len(ret) - 1) : ret[i].weight >= ret[i + 1].weight

\* candidates around more than one stone, next to the left border, with
\* different weights
C19_Witness ==
  /\ call.op = "generateCandidateMoves"
  /\ call.radius = 2
  /\ At(board, 0, 7) # 0
  /\ Len(ret) > 25
  /\ ret[1].weight > ret[Len(ret)].weight


(***************************************************************************)
(* GameState.applyMove and GameState.undoMove called directly              *)
(***************************************************************************)
\* the cells of the moves; the last one is off the board
PlacedCells == {<<1, 1>>, <<2, 2>>, <<7, 7>>, <<15, 7>>}

\* move.player; 0 is a move without player
MovePlayers == {0, Black, White}

\* GameState.applyMove
ApplyMove(x, y, player) ==
  /\ Len(moveHistory) < MaxMoves
  /\ \E applied \in {applyMove(Game, [x |-> x, y |-> y, player |-> player])} :
       /\ Becomes(applied.game)
       /\ ret' = [success |-> applied.success, error |-> applied.error]
  /\ call' = [op |-> "applyMove", x |-> x, y |-> y, player |-> player]
  /\ writes' = 0
  /\ UNCHANGED <<forbiddenRules, engine, lineArray, difficulty, others>>

\* GameState.undoMove
UndoMove ==
  /\ \E undone \in {undoMove(Game)} :
       /\ Becomes(undone.game)
       /\ ret' = [success |-> undone.success, move |-> undone.move]
  /\ call' = [op |-> "undoMove", x |-> 0, y |-> 0, player |-> 0]
  /\ writes' = 0
  /\ UNCHANGED <<forbiddenRules, engine, lineArray, difficulty, others>>

\* GameState.switchPlayer
SwitchPlayer ==
  /\ Becomes(switchPlayer(Game))
  /\ call' = [op |-> "switchPlayer", x |-> 0, y |-> 0, player |-> 0]
  /\ ret' = NoRet
  /\ writes' = 0
  /\ UNCHANGED <<forbiddenRules, engine, lineArray, difficulty, others>>

\* GameState.finishGame({winner: null, reason: 'draw'})
FinishGame ==
  /\ gameStatus # "finished"
  /\ Becomes(finishGame(Game, [winner |-> 0, winLine |-> <<>>]))
  /\ call' = [op |-> "finishGame", x |-> 0, y |-> 0, player |-> 0]
  /\ ret' = NoRet
  /\ writes' = 0
  /\ UNCHANGED <<forbiddenRules, engine, lineArray, difficulty, others>>

NextState ==
  \/ \E c \in PlacedCells, player \in MovePlayers : ApplyMove(c[1], c[2], player)
  \/ UndoMove
  \/ SwitchPlayer
  \/ FinishGame

SpecState == Init /\ [][NextState]_vars

\* the step is an undoMove that did what the last record asks for
UndoneStep ==
  IF moveHistory = <<>>
  THEN /\ ret'.success = FALSE
       /\ UNCHANGED <<board, play>>
  ELSE LET lastMove == moveHistory[Len(moveHistory)]
       IN /\ ret'.success
          /\ ret'.move = lastMove
          /\ At(board', lastMove.x, lastMove.y) = 0
          /\ \A c \in Coords \X Coords :
               c # <<lastMove.x, lastMove.y>> => At(board', c[1], c[2]) = At(board, c[1], c[2])
          /\ moveHistory' = SubSeq(moveHistory, 1, Len(moveHistory) - 1)
          /\ (gameStatus' = "ready") <=> (moveHistory' = <<>>)
          /\ moveHistory' # <<>> => gameStatus' = gameStatus

\* the step is a successful applyMove that undoMove would take back
AppliedStep ==
  /\ At(board, call'.x, call'.y) = 0
  /\ At(board', call'.x, call'.y) # 0
  /\ Len(moveHistory') = Len(moveHistory) + 1
  /\ undoMove(Game').game.board = board
  /\ undoMove(Game').game.moveHistory = moveHistory

\* C20: undoMove takes back the last successful applyMove on board and
\* history: it empties the cell of the last record and no other cell, drops
\* the last record, sets gameStatus to 'ready' exactly when the history gets
\* empty, and on an empty history it fails and changes nothing.
C20_UndoInvertsApply ==
  [][/\ call'.op = "undoMove" => UndoneStep
     /\ (call'.op = "applyMove" /\ ret'.success) => AppliedStep]_vars

\* an undoMove took the only stone from the board
C20_Witness ==
  /\ call.op = "undoMove"
  /\ ret.success
  /\ moveHistory = <<>>
  /\ gameStatus = "ready"
  /\ board = EmptyBoard


(***************************************************************************)
(* SaveLoadService.save over the browser's localStorage                    *)
(***************************************************************************)
\* GameState.getSnapshot; JSON.stringify and JSON.parse give back the
\* numbers, strings, booleans and arrays a snapshot is made of
getSnapshot ==
  [board |-> board, currentPlayer |-> currentPlayer, moveHistory |-> moveHistory,
   gameStatus |-> gameStatus,
   settings |-> [forbiddenRules |-> forbiddenRules, playerSide |-> playerSide],
   winner |-> winner, winLine |-> winLine]

\* what localStorage.setItem does behind StorageUtils.setJSON: it stores the
\* value, or throws (the quota is exceeded) and leaves the old value
SetOutcomes == {"stored", "thrown"}

\* StorageUtils.setJSON: the item after the call
setJSON(item, value, supported, outcome) ==
  IF supported /\ outcome = "stored" THEN <<value>> ELSE item

\* StorageUtils.getJSON
getJSON(item, defaultValue, supported) ==
  IF ~supported \/ item = NoItem THEN defaultValue ELSE item[1]

\* autoSaves.unshift(saveData), then one pop() when the list got longer than 10
Unshifted(list, saveData) ==
  IF Len(list) + 1 > 10 THEN <<saveData>> \o SubSeq(list, 1, Len(list) - 1)
                        ELSE <<saveData>> \o list

\* SaveLoadService.save: the two items and the result; supported is what
\* StorageUtils.isSupported() answers during the call, and a throw of the
\* first setItem leaves the body before the list is read
save(name, supported, first, second) ==
  LET saveData == [version |-> "2.0.0", name |-> name, timestamp |-> now,
                   snapshot |-> getSnapshot]
  IN IF supported /\ first = "thrown"
     THEN [lastGame |-> lastGame, autoSaves |-> autoSaves, success |-> FALSE]
     ELSE [lastGame |-> setJSON(lastGame, saveData, supported, first),
           autoSaves |-> setJSON(autoSaves,
                                 Unshifted(getJSON(autoSaves, <<>>, supported), saveData),
                                 supported, second),
           success |-> ~(supported /\ second = "thrown")]

\* the clock stops here
MaxClock == 12

\* the names saves are made under
SaveNames == {"manual_save"}

\* SaveLoadService.save(name); the clock has advanced since the last call
Save(name) ==
  /\ now < MaxClock
  /\ \E supported \in BOOLEAN, first \in SetOutcomes, second \in SetOutcomes :
       \E saved \in {save(name, supported, first, second)} :
         /\ lastGame' = saved.lastGame
         /\ autoSaves' = saved.autoSaves
         /\ ret' = [success |-> saved.success]
  /\ now' = now + 1
  /\ call' = [op |-> "save", x |-> 0, y |-> 0, player |-> 0, name |-> name]
  /\ UNCHANGED <<board, forbiddenRules, engine, writes, lineArray, difficulty, play,
                 replay, bus>>

NextSave == \E name \in SaveNames : Save(name)

SpecSave == Init /\ [][NextSave]_vars

\* the timestamps do not grow along the list
NewestFirst(list) ==
  \A i \in 1..(Len(list) - 1) : list[i].timestamp >= list[i + 1].timestamp

\* C21: after any sequence of save calls the stored auto-save list has at
\* most 10 entries, newest first, and its first entry is the stored
\* last-game record.
C21_ListHeadsWithLastGame ==
  (autoSaves # NoItem /\ autoSaves[1] # <<>>)
    => /\ Len(autoSaves[1]) <= 10
       /\ NewestFirst(autoSaves[1])
       /\ lastGame = <<autoSaves[1][1]>>


(***************************************************************************)
(* What the counted threes and fours are                                   *)
(***************************************************************************)
\* the array with one more own stone at 0-based index e
WithStone(line, e) == [line EXCEPT ![e + 1] = 1]

\* four own stones in a row at 0-based indices s..s+3 with both flanking
\* cells empty
OpenFourAt(line, s) ==
  /\ s >= 1
  /\ s + 4 <= Len(line) - 1
  /\ \A i \in s..(s + 3) : line[i + 1] = 1
  /\ line[s] = 0
  /\ line[s + 5] = 0

\* one more own stone on an empty cell of the axis makes the stones an open
\* four
CanBecomeOpenFour(line, stones) ==
  \E e \in 0..(Len(line) - 1) :
    /\ line[e + 1] = 0
    /\ \E s \in 0..(Len(line) - 1) :
         /\ stones \cup {e} = s..(s + 3)
         /\ OpenFourAt(WithStone(line, e), s)

\* C22: every pattern counted as an open three by _countOpenThrees can
\* still become an open four: one more Black stone on an empty cell of the
\* axis gives four Black stones in a row with both flanking cells empty; a
\* three shut in by White or the border (X E O O O E X) is not counted.
C22_OpenThreeCanOpenFour ==
  call.op = "_countOpenThrees" =>
    \A stones \in StoneSets(Matching.openThrees) : CanBecomeOpenFour(lineArray, stones)


\* the sub-windows the loaded source counts as rush fours: js/core/RuleEngine.js
\* counts every window it takes for one, unnamed/part_001 those whose stones
\* are not the stones of an open four
CountedRushFours ==
  IF engine = "RuleEngine.js" THEN Matching.rushFours
  ELSE {w \in Matching.rushFours :
          PiecePositions(lineArray, w[1], w[2]) \notin StoneSets(Matching.openFours)}

\* the window start..end (0-based) is a rush four: four own stones, length
\* 5 to 7, through the centre, nothing but own stones and empty cells
\* strictly inside, one end empty and the other White or border
RushFourShape(line, centerIndex, start, end) ==
  /\ end - start + 1 \in 5..7
  /\ centerIndex \in start..end
  /\ Cardinality(PiecePositions(line, start, end)) = 4
  /\ \A i \in (start + 1)..(end - 1) : line[i + 1] \in {0, 1}
  /\ \/ line[start + 1] = 0 /\ line[end + 1] \in {2, 3}
     \/ line[end + 1] = 0 /\ line[start + 1] \in {2, 3}

\* the 0-based windows of the array
WindowsOf(line) ==
  {w \in (0..(Len(line) - 1)) \X (0..(Len(line) - 1)) : w[1] <= w[2]}

\* C23: every pattern counted as a rush four by _countFours is four own
\* stones that lie in a window of length 5 to 7 through the new stone, with
\* no White or border cell strictly inside, exactly one end empty and the
\* other end White or border, and its stones were not counted as an open
\* four; four stones split by a White stone are not counted.
C23_RushFourShape ==
  call.op = "_countFours" =>
    \A stones \in StoneSets(CountedRushFours) :
      /\ \E w \in WindowsOf(lineArray) :
           /\ PiecePositions(lineArray, w[1], w[2]) = stones
           /\ RushFourShape(lineArray, call.centerIndex, w[1], w[2])
      /\ stones \notin StoneSets(Matching.openFours)


(***************************************************************************)
(* compute of the searching tiers: which candidate wins                    *)
(***************************************************************************)
\* strategy.compute(state, player) of the player's tier, as computeMove
\* invokes it; it can be asked again on the same board
Compute(player) ==
  /\ \E picked \in compute(difficulty[player], board, player) :
       /\ ret' = picked.move
       /\ board' = picked.board
  /\ call' = [op |-> "compute", player |-> player, level |-> difficulty[player]]
  /\ writes' = 0
  /\ UNCHANGED <<forbiddenRules, engine, lineArray, difficulty, play, others>>

\* one Black stone in the middle of the board
LoneStoneBoard == StonesBoard({<<7, 7>>}, {})

TieSnapshots ==
  {Snapshot(CrossBoard, TRUE), Snapshot(LoneStoneBoard, TRUE),
   Snapshot(Put(Put(Put(FullBoard, 7, 7, 0), 0, 0, 0), 8, 7, 0), TRUE)}

TieMovers == {White}

NextTie ==
  \/ /\ Fresh
     /\ \E snapshot \in TieSnapshots : RestoreSnapshot(snapshot)
  \/ \E player \in TieMovers, level \in Levels : SetDifficulty(player, level)
  \/ \E player \in TieMovers : Compute(player)

SpecTie == Init /\ [][NextTie]_vars

\* the score compute gives each of the top candidates, searched on its own
\* copy of the board
RootScores(strategy, b, player, topCandidates) ==
  [i \in 1..Len(topCandidates) |->
     Score(strategy,
           _minimax(strategy, Put(cloneBoard(b), topCandidates[i].x, topCandidates[i].y, player),
                    player, 1, -Infinity, Infinity, FALSE),
           topCandidates[i].x, topCandidates[i].y, player)]

\* the move is the earliest candidate that has the greatest score
EarliestBest(move, topCandidates, scores) ==
  \E i \in 1..Len(topCandidates) :
    /\ move = [x |-> topCandidates[i].x, y |-> topCandidates[i].y, score |-> scores[i]]
    /\ \A j \in 1..Len(topCandidates) : scores[j] <= scores[i]
    /\ \A j \in 1..(i - 1) : scores[j] < scores[i]

\* the greatest score is reached by a later candidate as well
TiedAtTop(move, topCandidates, scores) ==
  \E j \in 1..Len(topCandidates) :
    /\ scores[j] = move.score
    /\ <<topCandidates[j].x, topCandidates[j].y>> # <<move.x, move.y>>

\* C24: compute of the Normal, Hard and Hell tiers returns the earliest
\* candidate, in the generator's order, among the top candidates with the
\* greatest score, with that score; asked again on the same board for the
\* same player it returns the same cell.
C24_EarliestBestWins ==
  (call.op = "compute" /\ call.level # "BEGINNER")
    => EarliestBest(ret,
                    Take(generateCandidateMoves(board, 2), Strategies[call.level].maxCandidates),
                    RootScores(Strategies[call.level], board, call.player,
                               Take(generateCandidateMoves(board, 2),
                                    Strategies[call.level].maxCandidates)))

\* compute chose among candidates of equal greatest score
C24_Witness ==
  /\ call.op = "compute"
  /\ call.level # "BEGINNER"
  /\ TiedAtTop(ret,
               Take(generateCandidateMoves(board, 2), Strategies[call.level].maxCandidates),
               RootScores(Strategies[call.level], board, call.player,
                          Take(generateCandidateMoves(board, 2),
                               Strategies[call.level].maxCandidates)))


(***************************************************************************)
(* ModeManager: mode changes and new games while AI timers are pending     *)
(***************************************************************************)
\* GameState.reset: the fields of a new game; the settings are reset as well
reset(g) ==
  [g EXCEPT !.board = EmptyBoard, !.currentPlayer = 1, !.moveHistory = <<>>,
            !.playerSide = 1, !.gameStatus = "ready", !.winner = 0, !.winLine = <<>>]

\* ModeManager.startEvE in EvE mode, before it calls triggerAIMove
AutoPlaying(g) ==
  [g EXCEPT !.eveAutoPlay = TRUE,
            !.gameStatus = IF @ = "ready" THEN "playing" ELSE @]

\* ModeManager.startEvE: the games it can leave. The search of the
\* triggerAIMove it calls runs inside the call, and the promise is settled
\* before any other handler runs
startEvE(g, levels, rules, eng) ==
  IF g.currentMode # "EvE" THEN {g}
  ELSE triggerAIMove(AutoPlaying(g), levels, rules, eng)

\* ModeManager.startNewGame: the games it can leave; reset puts the
\* settings back, the forbidden rules among them
startNewGame(g, levels, eng) ==
  LET fresh == reset([stopEvE(g) EXCEPT !.isReplayMode = FALSE])
  IN IF fresh.currentMode = "EvE"
     THEN startEvE(fresh, levels, TRUE, eng)
     ELSE IF fresh.currentMode = "PvE" /\ fresh.playerSide = 2
     THEN {[fresh EXCEPT !.aiTimers = @ + 1]}
     ELSE {fresh}

\* ModeManager.setMode: the fields of the game it writes
setMode(g, mode, options) ==
  IF mode = "PvE"
  THEN [stopEvE(g) EXCEPT !.currentMode = mode, !.playerSide = options.playerSide]
  ELSE [stopEvE(g) EXCEPT !.currentMode = mode]

\* the levels setMode hands to AIEngine.setDifficulty
setModeDifficulty(levels, mode, options) ==
  IF mode = "PvE"
  THEN [levels EXCEPT ![IF options.playerSide = 1 THEN 2 ELSE 1] = options.aiDifficulty]
  ELSE IF mode = "EvE"
  THEN [levels EXCEPT ![1] = options.blackAI, ![2] = options.whiteAI]
  ELSE levels

\* ModeManager.setMode(mode, options), at any time
ChangeMode(mode, options) ==
  /\ Becomes(setMode(Game, mode, options))
  /\ difficulty' = setModeDifficulty(difficulty, mode, options)
  /\ call' = [op |-> "setMode", x |-> 0, y |-> 0, player |-> 0, mode |-> mode]
  /\ ret' = NoRet
  /\ writes' = 0
  /\ UNCHANGED <<forbiddenRules, engine, lineArray, others>>

\* ModeManager.startNewGame
StartNewGame ==
  /\ \E g \in startNewGame(Game, difficulty, engine) :
       /\ g.aiTimers <= MaxTimers
       /\ Becomes(g)
  /\ forbiddenRules' = TRUE
  /\ call' = [op |-> "startNewGame", x |-> 0, y |-> 0, player |-> 0]
  /\ ret' = NoRet
  /\ writes' = 0
  /\ UNCHANGED <<engine, lineArray, difficulty, others>>

\* ModeManager.handleMove(x, y), also while a timer is pending
HandleMoveEarly(x, y) ==
  /\ Len(moveHistory) < MaxMoves
  /\ \E handled \in {handleMove(Game, x, y, forbiddenRules, engine)} :
       /\ handled.game.aiTimers <= MaxTimers
       /\ Becomes(handled.game)
       /\ ret' = handled.ret
  /\ call' = [op |-> "handleMove", x |-> x, y |-> y, player |-> currentPlayer]
  /\ writes' = 0
  /\ UNCHANGED <<forbiddenRules, engine, lineArray, difficulty, others>>

\* the options of setMode('PvE', options)
PvEOptions ==
  {[aiDifficulty |-> "NORMAL", playerSide |-> side, blackAI |-> "NORMAL", whiteAI |-> "HARD"] :
     side \in Players}

\* the cells the human player clicks
TurnCells == {<<7, 7>>, <<7, 8>>}

NextTurn ==
  \/ \E options \in PvEOptions : ChangeMode("PvE", options)
  \/ \E c \in TurnCells : HandleMoveEarly(c[1], c[2])
  \/ TriggerAIMove
  \/ Undo
  \/ StartNewGame

\* a new page with js/core/RuleEngine.js loaded; the two engines differ in
\* the forbidden patterns only, which need more stones than these games have
InitTurn == Init /\ engine = "RuleEngine.js"

SpecTurn == InitTurn /\ [][NextTurn]_vars

\* C25: in PvE mode every stone placed through triggerAIMove has the colour
\* of the AI's side, the one that is not settings.playerSide, and is placed
\* when it is that side's turn, whatever handleMove, undo, startNewGame and
\* setMode calls come between the setting of a timer and its callback.
C25_AIPlaysItsOwnSide ==
  [][(call'.op = "triggerAIMove" /\ currentMode = "PvE" /\ board' # board)
       => /\ currentPlayer # playerSide
          /\ moveHistory'[Len(moveHistory')].player # playerSide]_vars


(***************************************************************************)
(* EvE auto-play: started, stopped, and the timers that outlive the stop   *)
(***************************************************************************)
\* the UI's start button: ModeManager.startEvE()
StartEvE ==
  /\ Len(moveHistory) < MaxMoves
  /\ \E g \in startEvE(Game, difficulty, forbiddenRules, engine) :
       /\ g.aiTimers <= MaxTimers
       /\ Becomes(g)
  /\ call' = [op |-> "startEvE", x |-> 0, y |-> 0, player |-> currentPlayer]
  /\ ret' = NoRet
  /\ writes' = 0
  /\ UNCHANGED <<forbiddenRules, engine, lineArray, difficulty, others>>

\* the UI's stop button: ModeManager.stopEvE()
StopEvE ==
  /\ Becomes(stopEvE(Game))
  /\ call' = [op |-> "stopEvE", x |-> 0, y |-> 0, player |-> 0]
  /\ ret' = NoRet
  /\ writes' = 0
  /\ UNCHANGED <<forbiddenRules, engine, lineArray, difficulty, others>>

\* ModeManager.enterReplayMode
enterReplayMode(g) == stopEvE([g EXCEPT !.isReplayMode = TRUE])

EnterReplayMode ==
  /\ Becomes(enterReplayMode(Game))
  /\ call' = [op |-> "enterReplayMode", x |-> 0, y |-> 0, player |-> 0]
  /\ ret' = NoRet
  /\ writes' = 0
  /\ UNCHANGED <<forbiddenRules, engine, lineArray, difficulty, others>>

\* ModeManager.exitReplayMode
exitReplayMode(g) == [g EXCEPT !.isReplayMode = FALSE]

ExitReplayMode ==
  /\ Becomes(exitReplayMode(Game))
  /\ call' = [op |-> "exitReplayMode", x |-> 0, y |-> 0, player |-> 0]
  /\ ret' = NoRet
  /\ writes' = 0
  /\ UNCHANGED <<forbiddenRules, engine, lineArray, difficulty, others>>

\* the options of setMode('EvE', options) and of setMode('PvP')
EvEOptions ==
  {[aiDifficulty |-> "NORMAL", playerSide |-> 1, blackAI |-> "NORMAL", whiteAI |-> "HARD"]}

NextEvE ==
  \/ \E mode \in {"EvE", "PvP"} : \E options \in EvEOptions : ChangeMode(mode, options)
  \/ StartEvE
  \/ StopEvE
  \/ TriggerAIMove
  \/ EnterReplayMode
  \/ ExitReplayMode
  \/ StartNewGame

SpecEvE == InitTurn /\ [][NextEvE]_vars

\* C26: with auto-play stopped (stopEvE itself, setMode, startNewGame in
\* another mode, enterReplayMode) and not started again, triggerAIMove puts
\* no stone on the board, also when it is the callback of a timer that was
\* set before the stop. In these games every timer is set during auto-play.
C26_NoMoveAfterStop ==
  [][(call'.op = "triggerAIMove" /\ ~eveAutoPlay) => board' = board]_vars


(***************************************************************************)
(* The end of a game: five in a row, and what comes after it               *)
(***************************************************************************)
\* at most this many moves are on the board of a game that can end
MaxPlies == 10

\* a new page's game
NewGame ==
  [board |-> EmptyBoard, currentPlayer |-> Black, moveHistory |-> <<>>,
   gameStatus |-> "ready", currentMode |-> "PvP", playerSide |-> Black,
   aiTimers |-> 0, eveAutoPlay |-> FALSE, isReplayMode |-> FALSE,
   winner |-> 0, winLine |-> <<>>]

\* the clicks of a PvP game's first eight moves: four white stones in row 8,
\* the black ones in the centre and in three corners
OpeningCells ==
  <<<<7, 7>>, <<5, 8>>, <<0, 0>>, <<6, 8>>, <<14, 0>>, <<7, 8>>, <<0, 14>>, <<8, 8>>>>

\* the game after handleMove was called for each of the first n cells
RECURSIVE Played(_, _, _)
Played(cells, n, eng) ==
  IF n = 0 THEN NewGame
  ELSE handleMove(Played(cells, n - 1, eng), cells[n][1], cells[n][2], TRUE, eng).game

\* the page after the eight clicks
InitLate ==
  /\ engine = "RuleEngine.js"
  /\ \E g \in {Played(OpeningCells, Len(OpeningCells), engine)} :
       /\ board = g.board
       /\ currentPlayer = g.currentPlayer
       /\ moveHistory = g.moveHistory
       /\ gameStatus = g.gameStatus
       /\ currentMode = g.currentMode
       /\ playerSide = g.playerSide
       /\ aiTimers = g.aiTimers
       /\ eveAutoPlay = g.eveAutoPlay
       /\ isReplayMode = g.isReplayMode
       /\ winner = g.winner
       /\ winLine = g.winLine
  /\ forbiddenRules = TRUE
  /\ call = NoCall
  /\ ret = NoRet
  /\ writes = 0
  /\ lineArray = <<>>
  /\ difficulty = DefaultDifficulty
  /\ lastGame = NoItem
  /\ autoSaves = NoItem
  /\ now = 0
  /\ sequence = <<>>
  /\ currentIndex = 0
  /\ isPlaying = FALSE
  /\ speed = 10
  /\ timer = 0
  /\ timers = {}
  /\ originalSnapshot = <<>>
  /\ listeners = <<>>
  /\ invoked = <<>>

\* ModeManager.handleMove(x, y) late in a game
HandleMoveLate(x, y) ==
  /\ Len(moveHistory) < MaxPlies
  /\ \E handled \in {handleMove(Game, x, y, forbiddenRules, engine)} :
       /\ handled.game.aiTimers <= MaxTimers
       /\ Becomes(handled.game)
       /\ ret' = handled.ret
  /\ call' = [op |-> "handleMove", x |-> x, y |-> y, player |-> currentPlayer]
  /\ writes' = 0
  /\ UNCHANGED <<forbiddenRules, engine, lineArray, difficulty, others>>

\* the timer's callback late in a game
TriggerAIMoveLate ==
  /\ Len(moveHistory) < MaxPlies
  /\ aiTimers > 0
  /\ \E g \in triggerAIMove([Game EXCEPT !.aiTimers = @ - 1], difficulty, forbiddenRules,
                            engine) :
       Becomes(g)
  /\ call' = [op |-> "triggerAIMove", x |-> 0, y |-> 0, player |-> currentPlayer]
  /\ ret' = NoRet
  /\ writes' = 0
  /\ UNCHANGED <<forbiddenRules, engine, lineArray, difficulty, others>>

\* the cells clicked late in the game: one end of White's four and a cell
\* far from it
LateCells == {<<4, 8>>, <<1, 1>>}

\* the moves of the opening are not taken back: undo is called while more
\* than this many moves are on the board
MinPlies == 8

\* ModeManager.undo late in a game
UndoLate ==
  /\ Len(moveHistory) > MinPlies
  /\ Undo

\* the options of setMode('PvE', options) late in the game: the human player
\* keeps Black
LateOptions == {options \in PvEOptions : options.playerSide = Black}

NextLate ==
  \/ \E options \in LateOptions : ChangeMode("PvE", options)
  \/ \E c \in LateCells : HandleMoveLate(c[1], c[2])
  \/ TriggerAIMoveLate
  \/ UndoLate

SpecLate == InitLate /\ [][NextLate]_vars

\* the cells of the recorded winLine are five or more and hold the winner's
\* stones
WinLineStands ==
  /\ Len(winLine) >= 5
  /\ \A i \in 1..Len(winLine) : At(board, winLine[i][1], winLine[i][2]) = winner

\* C27: in a game that handleMove, triggerAIMove and undo have reached, a
\* finished game with a winner has the winner's five stones of the recorded
\* winLine on the board, and no call but startNewGame alters the board of a
\* finished game.
C27_FinishedKeepsFive ==
  /\ []((gameStatus = "finished" /\ winner # 0) => WinLineStands)
  /\ [][(gameStatus = "finished" /\ call'.op # "startNewGame") => board' = board]_vars


(***************************************************************************)
(* The search against a minimax that visits every candidate                *)
(***************************************************************************)
Greatest(values) == CHOOSE v \in values : \A w \in values : w <= v

Least(values) == CHOOSE v \in values : \A w \in values : v <= w

RECURSIVE PlainMinimax(_, _, _, _, _)

\* the values of the positions after each candidate, none left out
PlainValues(strategy, b, player, depth, isMaximizing, candidates) ==
  {PlainMinimax(strategy,
                Put(b, candidates[i].x, candidates[i].y,
                    IF isMaximizing THEN player ELSE getOpponent(player)),
                player, depth + 1, ~isMaximizing) : i \in 1..Len(candidates)}

PlainOver(strategy, b, player, depth, isMaximizing, candidates) ==
  IF Len(candidates) = 0 THEN evaluate(b, player)
  ELSE IF isMaximizing
  THEN Greatest(PlainValues(strategy, b, player, depth, isMaximizing, candidates))
  ELSE Least(PlainValues(strategy, b, player, depth, isMaximizing, candidates))

\* depth-limited minimax over the same truncated candidate lists and the
\* same leaf evaluation, without a window
PlainMinimax(strategy, b, player, depth, isMaximizing) ==
  IF depth >= strategy.maxDepth THEN evaluate(b, player)
  ELSE PlainOver(strategy, b, player, depth, isMaximizing,
                 Take(generateCandidateMoves(b, 2), strategy.maxCandidates))

\* the position after the opponent's reply i to the root position
Reply(b, player, replies, i) == Put(b, replies[i].x, replies[i].y, getOpponent(player))

\* the search of the reply's position stops early: one of its leaves, not
\* the last, reaches the least value of the replies before it
StopsEarly(strategy, b, player, beta, answers) ==
  \E g \in 1..(Len(answers) - 1) :
    evaluate(Put(b, answers[g].x, answers[g].y, player), player) >= beta

\* a three-level search from the root position, the opponent to move, leaves
\* positions unvisited
CutOff(strategy, b, player, replies) ==
  \E j \in 2..Len(replies) :
    StopsEarly(strategy, Reply(b, player, replies, j), player,
               Least({PlainMinimax(strategy, Reply(b, player, replies, k), player, 2, TRUE) :
                        k \in 1..(j - 1)}),
               Take(generateCandidateMoves(Reply(b, player, replies, j), 2),
                    strategy.maxCandidates))

\* C28: _minimax called with the window (-Infinity, +Infinity) returns the
\* value of the plain depth-limited minimax over the same truncated
\* candidate lists and the same leaf evaluation: pruning on beta <= alpha
\* does not change the result of the search.
C28_PruningKeepsValue ==
  (call.op = "_minimax" /\ call.alpha = -Infinity /\ call.beta = Infinity)
    => ret.value = PlainMinimax(Strategies[difficulty[call.player]], call.board,
                                call.player, 1, call.isMaximizing)

\* the Hard tier searched from the root as compute calls it, and skipped
\* the rest of a reply's candidates
C28_Witness ==
  /\ call.op = "_minimax"
  /\ call.alpha = -Infinity
  /\ call.beta = Infinity
  /\ ~call.isMaximizing
  /\ difficulty[call.player] = "HARD"
  /\ ret.value = PlainMinimax(Strategies.HARD, call.board, call.player, 1, FALSE)
  /\ CutOff(Strategies.HARD, call.board, call.player,
            Take(generateCandidateMoves(call.board, 2), Strategies.HARD.maxCandidates))


(***************************************************************************)
(* ReplayService: the replay of a move list, its index and its timers      *)
(***************************************************************************)
\* at most this many replay timeouts are pending
MaxPending == 2

\* the game, the settings and the replay service together
Page ==
  [game |-> Game, rules |-> forbiddenRules,
   sequence |-> sequence, currentIndex |-> currentIndex, isPlaying |-> isPlaying,
   speed |-> speed, timer |-> timer, timers |-> timers,
   originalSnapshot |-> originalSnapshot]

Turns(p) ==
  /\ Becomes(p.game)
  /\ forbiddenRules' = p.rules
  /\ sequence' = p.sequence
  /\ currentIndex' = p.currentIndex
  /\ isPlaying' = p.isPlaying
  /\ speed' = p.speed
  /\ timer' = p.timer
  /\ timers' = p.timers
  /\ originalSnapshot' = p.originalSnapshot

\* the ids of timeouts
TimerIds == 1..(MaxPending + 2)

\* the id setTimeout returns: one no pending timeout has and this.timer
\* does not hold
FreshTimer(p) ==
  CHOOSE t \in TimerIds :
    /\ t \notin p.timers \cup {p.timer}
    /\ \A u \in 1..(t - 1) : u \in p.timers \cup {p.timer}

\* ReplayService.pause: clearTimeout of a timeout that has run does nothing
pause(p) ==
  [p EXCEPT !.isPlaying = FALSE,
            !.timers = IF p.timer # 0 THEN @ \ {p.timer} ELSE @,
            !.timer = 0]

\* ReplayService._scheduleNext
_scheduleNext(p) ==
  IF ~p.isPlaying THEN p
  ELSE IF p.currentIndex >= Len(p.sequence) THEN [p EXCEPT !.isPlaying = FALSE]
  ELSE [p EXCEPT !.timer = FreshTimer(p), !.timers = @ \cup {FreshTimer(p)}]

\* ReplayService.play
playReplay(p) ==
  IF Len(p.sequence) = 0 THEN p
  ELSE _scheduleNext([p EXCEPT !.isPlaying = TRUE])

\* ReplayService._applyMove: applyMove's result is not looked at
_applyMove(g, move) ==
  LET player == IF move.player # 0 THEN move.player
                ELSE IF g.currentPlayer = 1 THEN 1 ELSE 2
  IN [applyMove([g EXCEPT !.currentPlayer = player],
                [x |-> move.x, y |-> move.y, player |-> player]).game
        EXCEPT !.currentPlayer = IF player = 1 THEN 2 ELSE 1]

\* GameState.restoreSnapshot and GameState.getSnapshot on a page
restoreSnapshot(p, snapshot) ==
  [p EXCEPT !.game.board = snapshot.board,
            !.game.currentPlayer = snapshot.currentPlayer,
            !.game.moveHistory = snapshot.moveHistory,
            !.game.gameStatus = snapshot.gameStatus,
            !.game.playerSide = snapshot.settings.playerSide,
            !.game.winner = snapshot.winner,
            !.game.winLine = snapshot.winLine,
            !.rules = snapshot.settings.forbiddenRules]

snapshotOf(p) ==
  [board |-> p.game.board, currentPlayer |-> p.game.currentPlayer,
   moveHistory |-> p.game.moveHistory, gameStatus |-> p.game.gameStatus,
   settings |-> [forbiddenRules |-> p.rules, playerSide |-> p.game.playerSide],
   winner |-> p.game.winner, winLine |-> p.game.winLine]

\* ReplayService.stop after its pause
Stopped(p) ==
  IF p.originalSnapshot # <<>>
  THEN [restoreSnapshot(p, p.originalSnapshot[1])
          EXCEPT !.originalSnapshot = <<>>, !.game.isReplayMode = FALSE]
  ELSE [p EXCEPT !.game.isReplayMode = FALSE]

stop(p) == Stopped(pause(p))

\* GameState.reset and gameStatus = 'replay'
Rewound(p) ==
  [p EXCEPT !.game = [reset(@) EXCEPT !.gameStatus = "replay"], !.rules = TRUE]

\* ReplayService.startReplay after stop ran
Started(p, moves, options) ==
  playReplay(Rewound([p EXCEPT !.sequence = moves,
                              !.currentIndex = 0,
                              !.speed = options.speed,
                              !.originalSnapshot = <<snapshotOf(p)>>,
                              !.game = enterReplayMode(stopEvE(@))]))

startReplay(p, moves, options) ==
  IF Len(moves) = 0 THEN p ELSE Started(stop(p), moves, options)

\* ReplayService.stepForward after its pause
Forwarded(p) ==
  IF p.currentIndex >= Len(p.sequence) THEN p
  ELSE [p EXCEPT !.game = _applyMove(@, p.sequence[p.currentIndex + 1]),
                 !.currentIndex = @ + 1]

stepForward(p) == Forwarded(pause(p))

\* the loop of stepBackward: the first n moves applied again
RECURSIVE Reapplied(_, _, _)
Reapplied(g, moves, n) ==
  IF n = 0 THEN g ELSE _applyMove(Reapplied(g, moves, n - 1), moves[n])

\* ReplayService.stepBackward after its pause
Backed(p) ==
  IF p.currentIndex <= 0 THEN p
  ELSE [Rewound(p) EXCEPT !.game = Reapplied(@, p.sequence, p.currentIndex - 1),
                          !.currentIndex = @ - 1]

stepBackward(p) == Backed(pause(p))

\* ReplayService.setSpeed, the speed in tenths: Math.max(0.1, Math.min(speed, 4))
Clamped(p, tenths) == [p EXCEPT !.speed = Max(1, Min(tenths, 40))]

setSpeed(p, tenths) ==
  IF p.isPlaying THEN playReplay(pause(Clamped(p, tenths))) ELSE Clamped(p, tenths)

\* the callback of the timeout _scheduleNext set: sequence[currentIndex] is
\* undefined past the end, and _applyMove throws on undefined.player
timerCallback(p) ==
  IF p.currentIndex >= Len(p.sequence) THEN p
  ELSE _scheduleNext([p EXCEPT !.game = _applyMove(@, p.sequence[p.currentIndex + 1]),
                               !.currentIndex = @ + 1])

ReplayCall(op) == [op |-> op, x |-> 0, y |-> 0, player |-> 0, existing |-> TRUE]

\* the page after a call of the replay service
Replayed(p) ==
  /\ Cardinality(p.timers) <= MaxPending
  /\ Turns(p)
  /\ ret' = NoRet
  /\ writes' = 0
  /\ UNCHANGED <<engine, lineArray, difficulty, saves, bus>>

\* ReplayService.startReplay(moves, options)
StartReplay(moves, options) ==
  /\ Replayed(startReplay(Page, moves, options))
  /\ call' = ReplayCall("startReplay")

\* ReplayService.play()
Play ==
  /\ Replayed(playReplay(Page))
  /\ call' = ReplayCall("play")

\* ReplayService.pause()
Pause ==
  /\ Replayed(pause(Page))
  /\ call' = ReplayCall("pause")

\* ReplayService.stepForward()
StepForward ==
  /\ Replayed(stepForward(Page))
  /\ call' = ReplayCall("stepForward")

\* ReplayService.stepBackward()
StepBackward ==
  /\ Replayed(stepBackward(Page))
  /\ call' = ReplayCall("stepBackward")

\* ReplayService.setSpeed(speed)
SetSpeed(tenths) ==
  /\ Replayed(setSpeed(Page, tenths))
  /\ call' = ReplayCall("setSpeed")

\* a pending replay timeout runs
ReplayTimer(t) ==
  /\ t \in timers
  /\ Replayed(timerCallback([Page EXCEPT !.timers = @ \ {t}]))
  /\ call' = [ReplayCall("replayTimer") EXCEPT !.existing = currentIndex < Len(sequence)]

\* the move lists replayed: the first moves of a game
ReplayMoves ==
  {<<[step |-> 1, x |-> 7, y |-> 7, player |-> 1]>>,
   <<[step |-> 1, x |-> 7, y |-> 7, player |-> 1],
     [step |-> 2, x |-> 7, y |-> 8, player |-> 2]>>}

\* the speeds asked for, in tenths: 0.5, 1 and 5
ReplaySpeeds == {5, 10, 50}

NextReplay ==
  \/ \E moves \in ReplayMoves : StartReplay(moves, [speed |-> 10])
  \/ Play
  \/ Pause
  \/ StepForward
  \/ StepBackward
  \/ \E tenths \in ReplaySpeeds : SetSpeed(tenths)
  \/ \E t \in TimerIds : ReplayTimer(t)

SpecReplay == InitTurn /\ [][NextReplay]_vars

\* C29: once startReplay has taken a move list, whatever play, pause,
\* stepForward, stepBackward, setSpeed calls and timer callbacks follow,
\* currentIndex stays within 0..sequence.length, a timer callback finds the
\* move sequence[currentIndex], the board holds currentIndex stones, and at
\* most one replay timer is pending.
C29_ReplayInStep ==
  sequence # <<>>
    => /\ currentIndex \in 0..Len(sequence)
       /\ call.op = "replayTimer" => call.existing
       /\ Stones(board, Black) + Stones(board, White) = currentIndex
       /\ Cardinality(timers) <= 1


(***************************************************************************)
(* EventBus: the listeners of one event                                    *)
(***************************************************************************)
\* at most this many listeners are registered
MaxListeners == 3

\* at most this many invocations are logged
MaxInvoked == 6

\* the handler functions: what each does when it is invoked
Handlers == [h1 |-> "returns", h2 |-> "throws", h3 |-> "returns", h4 |-> "throws"]

\* the functions handed to once, each one time, and those handed to on
OnceHandlers == {"h1", "h2"}

PlainHandlers == {"h3", "h4"}

\* EventBus.off(event, handler): the listeners that are not this function.
\* A wrapper made by once is another function than its handler.
off(list, fn, wrapped) ==
  SelectSeq(list, LAMBDA l : ~(l.fn = fn /\ l.once = wrapped))

\* EventBus.on(event, handler)
on(list, fn) == Append(list, [fn |-> fn, once |-> FALSE])

\* EventBus.once(event, handler): on with the wrapper
once(list, fn) == Append(list, [fn |-> fn, once |-> TRUE])

\* one listener invoked inside emit's try block: a wrapper calls its handler
\* and then off; when the handler throws, the off is not reached
Invoked(bus0, l) ==
  [listeners |-> IF l.once /\ Handlers[l.fn] = "returns"
                 THEN off(bus0.listeners, l.fn, TRUE)
                 ELSE bus0.listeners,
   invoked |-> Append(bus0.invoked, l.fn)]

\* EventBus.emit: forEach over the array as it is when emit starts; the
\* catch block logs the error and the loop goes on
RECURSIVE emitFrom(_, _, _)
emitFrom(bus0, list, i) ==
  IF i > Len(list) THEN bus0
  ELSE emitFrom(Invoked(bus0, list[i]), list, i + 1)

emit(bus0) == emitFrom(bus0, bus0.listeners, 1)

BusCall(op, fn) == [op |-> op, x |-> 0, y |-> 0, player |-> 0, handler |-> fn]

\* a function is registered or was invoked
Known(fn) ==
  \/ \E i \in 1..Len(listeners) : listeners[i].fn = fn
  \/ \E i \in 1..Len(invoked) : invoked[i] = fn

On(fn) ==
  /\ Len(listeners) < MaxListeners
  /\ listeners' = on(listeners, fn)
  /\ call' = BusCall("on", fn)
  /\ ret' = NoRet
  /\ writes' = 0
  /\ UNCHANGED <<board, forbiddenRules, engine, lineArray, difficulty, play, saves, replay,
                 invoked>>

Once(fn) ==
  /\ Len(listeners) < MaxListeners
  /\ ~Known(fn)
  /\ listeners' = once(listeners, fn)
  /\ call' = BusCall("once", fn)
  /\ ret' = NoRet
  /\ writes' = 0
  /\ UNCHANGED <<board, forbiddenRules, engine, lineArray, difficulty, play, saves, replay,
                 invoked>>

Off(fn) ==
  /\ listeners' = off(listeners, fn, FALSE)
  /\ call' = BusCall("off", fn)
  /\ ret' = NoRet
  /\ writes' = 0
  /\ UNCHANGED <<board, forbiddenRules, engine, lineArray, difficulty, play, saves, replay,
                 invoked>>

Emit ==
  /\ Len(invoked) + Len(listeners) <= MaxInvoked
  /\ \E after \in {emit([listeners |-> listeners, invoked |-> invoked])} :
       /\ listeners' = after.listeners
       /\ invoked' = after.invoked
  /\ call' = BusCall("emit", "none")
  /\ ret' = NoRet
  /\ writes' = 0
  /\ UNCHANGED <<board, forbiddenRules, engine, lineArray, difficulty, play, saves, replay>>

NextBus ==
  \/ \E fn \in PlainHandlers : On(fn)
  \/ \E fn \in OnceHandlers : Once(fn)
  \/ \E fn \in PlainHandlers \cup OnceHandlers : Off(fn)
  \/ Emit

SpecBus == InitTurn /\ [][NextBus]_vars

\* how often the function was invoked
Invocations(fn) == Cardinality({i \in 1..Len(invoked) : invoked[i] = fn})

\* C30: a handler registered with once is invoked at most once over all the
\* emits of its event, also when it throws in its first invocation, and
\* every emit invokes all the listeners registered when it starts, in
\* order, whether or not one of them throws.
C30_OnceAtMostOnce ==
  /\ [](\A fn \in OnceHandlers : Invocations(fn) <= 1)
  /\ [][call'.op = "emit"
          => invoked' = invoked \o [i \in 1..Len(listeners) |-> listeners[i].fn]]_vars

====
